---- MODULE Spec2Model ----
(***************************************************************************)
(* A model of the ODE simulator bridge of choreonoid's ODEPlugin           *)
(* (ODELink, ODEBody, ODESimulatorItemImpl, the near-phase callbacks and   *)
(* the nailed-object registry).                                            *)
(*                                                                         *)
(* Handles of the solver (dBodyID, dJointID, dGeomID, dWorldID) are        *)
(* modelled as tuples naming what they were created for; the null handle   *)
(* is the empty tuple.  Lengths are integers on a grid: vectors have       *)
(* integer components, rotations are signed permutation matrices.          *)
(***************************************************************************)
EXTENDS Integers, Sequences, FiniteSets, TLC

VARIABLES
    bodyModels,     \* the kinematic models (cnoid::Body) handed to the simulator
    cfg,            \* the configuration surface of ODESimulatorItemImpl
    sim,            \* the run state of ODESimulatorItemImpl
    odeBodies,      \* the ODEBody of every simulated body
    pc,             \* position of the host / of stepSimulation
    active,         \* activeSimBodies of the stepSimulation call in progress
    group,          \* contactJointGroupID: the contact joints it holds
    lastCall,       \* inputs and results of the latest near-phase callback
    log,            \* the operations executed by the step in progress
    stepNo,         \* the number of stepSimulation calls begun in this run
    kin,            \* one link and its solver body (kinematic state transfer)
    nailedObjects,  \* the map of the process-wide NailedObjectManager
    archive,        \* the Archive a store has written
    peer            \* a second ODESimulatorItem of the same process

vars == <<bodyModels, cfg, sim, odeBodies, pc, active, group, lastCall, log,
          stepNo, kin, nailedObjects, archive, peer>>

----------------------------------------------------------------------------
(* Bounds of the model *)

\* largest number of links of a kinematic tree drawn as input
MaxLinks == 3

\* number of stepSimulation calls explored in one run
MaxSteps == 2

\* number of initializeSimulation calls explored
MaxRuns == 2

\* contacts reported for one pair (the code's cap is MaxNumContacts = 100)
MaxContacts == 2

\* contact callbacks in the collision phase of one step
MaxCallbacks == 2

\* loop-closure joints (Body::ExtraJoint) of a body drawn as input
MaxExtraJoints == 2

----------------------------------------------------------------------------
(* Generic helpers *)

NullID == <<>>

Min(S) == CHOOSE x \in S : \A y \in S : x <= y

\* std::map::insert: an existing key keeps its value
MapInsert(m, k, v) == IF k \in DOMAIN m THEN m ELSE m @@ (k :> v)

EmptyMap == [x \in {} |-> x]

SeqToSet(s) == { s[i] : i \in 1..Len(s) }

----------------------------------------------------------------------------
(* The kinematic model: cnoid::Body and cnoid::Link as the plugin reads them *)

JointTypes == {"free", "rotational", "slide", "fixed", "crawler", "pct"}

LinkIds(m) == 1..m.n

\* Body::rootLink
rootLink(m) == CHOOSE l \in LinkIds(m) : m.parent[l] = 0

Children(m, l) == { c \in LinkIds(m) : m.parent[c] = l }

\* Link::child: the first child, 0 when there is none
child(m, l) == IF Children(m, l) = {} THEN 0 ELSE Min(Children(m, l))

\* Link::sibling: the next child of the same parent, 0 when there is none
sibling(m, l) ==
    LET later == { c \in Children(m, m.parent[l]) : c > l }
    IN  IF m.parent[l] = 0 \/ later = {} THEN 0 ELSE Min(later)

RECURSIVE Depth(_, _)
Depth(m, l) == IF m.parent[l] = 0 THEN 0 ELSE 1 + Depth(m, m.parent[l])

RECURSIVE SubtreeSize(_, _)
SubtreeSize(m, l) ==
    LET RECURSIVE Sum(_)
        Sum(S) == IF S = {} THEN 0
                  ELSE LET c == Min(S) IN SubtreeSize(m, c) + Sum(S \ {c})
    IN  1 + Sum(Children(m, l))

\* Link::index, as Body::updateLinkTree numbers the links: the root is 0, a
\* first child follows its parent, a later child follows the whole subtree
\* of the child before it
RECURSIVE index(_, _)
index(m, l) ==
    IF m.parent[l] = 0 THEN 0
    ELSE LET before == { c \in Children(m, m.parent[l]) : c < l }
             RECURSIVE Sum(_)
             Sum(S) == IF S = {} THEN 0
                       ELSE LET c == Min(S) IN SubtreeSize(m, c) + Sum(S \ {c})
         IN  index(m, m.parent[l]) + 1 + Sum(before)

\* Body::link(index)
LinkOfIndex(m, i) == CHOOSE l \in LinkIds(m) : index(m, l) = i

Link_isRotationalJoint(m, l) == m.jt[l] = "rotational"
Link_isSlideJoint(m, l) == m.jt[l] = "slide"

----------------------------------------------------------------------------
(* Handles of the solver *)

\* dBodyCreate / dJointCreate* / dCreate*: a handle names the run, the body
\* and the link it was created for
BodyHandle(run, b, l) == <<"body", run, b, l>>
JointHandle(run, b, l) == <<"joint", run, b, l>>
GeomHandle(run, b, l, k) == <<"geom", run, b, l, k>>

----------------------------------------------------------------------------
(* ODELink *)

\* a decision that takes a sphere under any diagonal scale (mutant)
doAddPrimitiveAnySphere(leaf) ==
    /\ leaf.prim # "MESH"
    /\ \/ ~leaf.scaled
       \/ /\ leaf.diag
          /\ \/ leaf.prim = "BOX"
             \/ leaf.prim = "SPHERE"
             \/ leaf.prim = "CYLINDER" /\ leaf.scale[1] = leaf.scale[3]

\* ODELink::addMesh, the decision whether the leaf becomes a native primitive
doAddPrimitive(leaf) ==
    /\ leaf.prim # "MESH"
    /\ \/ ~leaf.scaled
       \/ /\ leaf.diag
          /\ \/ leaf.prim = "BOX"
             \/ leaf.prim = "SPHERE" /\ leaf.scale[1] = leaf.scale[2]
                                     /\ leaf.scale[1] = leaf.scale[3]
             \/ leaf.prim = "CYLINDER" /\ leaf.scale[1] = leaf.scale[3]

\* ODELink::addMesh: one call of the extractor's callback on a leaf shape
addMesh(ad, leaf, gh) ==
    IF doAddPrimitive(leaf) /\ leaf.prim \in {"BOX", "SPHERE", "CYLINDER"}
    THEN [ad EXCEPT !.geomID = Append(@, gh),
                    !.offsetMap = IF ad.bodyID # NullID THEN @ ELSE @ \cup {gh}]
    ELSE [ad EXCEPT !.vertices = @ + leaf.nverts,
                    !.triangles = @ + leaf.ntris]

\* ODELink::createGeometry
createGeometry(ad, shape, run, b) ==
    LET RECURSIVE Leaves(_, _)
        Leaves(a, i) ==
            IF i > Len(shape) THEN a
            ELSE Leaves(addMesh(a, shape[i], GeomHandle(run, b, ad.link, i)), i + 1)
        TriMesh(extracted) ==
            IF extracted.vertices > 0
            THEN [extracted EXCEPT
                     !.triMeshDataID = TRUE,
                     !.geomID = Append(@, GeomHandle(run, b, ad.link, 0))]
            ELSE extracted
    IN  IF Len(shape) = 0 THEN ad ELSE TriMesh(Leaves(ad, 1))

IsTracked(jt) == jt \in {"crawler", "pct"}

\* ODELink::createLinkBody: the solver body and the joint chosen by joint type
createLinkBody(ad, ctx, parentBodyID) ==
    LET jt == ctx.m.jt[ad.link]
        bodyID == BodyHandle(ctx.run, ctx.b, ad.link)
        jointID == JointHandle(ctx.run, ctx.b, ad.link)
        withBody == [ad EXCEPT !.bodyID = bodyID]
    IN  CASE jt = "rotational" ->
               [withBody EXCEPT !.jointID = jointID, !.joint = "hinge",
                                !.attached = parentBodyID,
                                !.limits = ctx.isJointLimitMode,
                                !.servo = ctx.velocityMode]
          [] jt = "slide" ->
               [withBody EXCEPT !.jointID = jointID, !.joint = "slider",
                                !.attached = parentBodyID,
                                !.limits = ctx.isJointLimitMode,
                                !.servo = ctx.velocityMode]
          [] jt = "free" -> withBody
          [] OTHER ->
               IF parentBodyID # NullID
               THEN [withBody EXCEPT !.jointID = jointID, !.joint = "fixed",
                                     !.attached = parentBodyID]
               ELSE [withBody EXCEPT !.kinematic = TRUE]

\* the crawlerLinks.insert of ODELink::createLinkBody, in the build without
\* GAZEBO_ODE (the macro is defined nowhere in the sources): only a tracked
\* link with a parent body is registered; a root one is made kinematic
registerCrawler(crawlerLinks, ad, ctx, parentBodyID) ==
    IF /\ ~(ctx.m.jt[ad.link] \in {"rotational", "slide", "free"})
       /\ parentBodyID # NullID
       /\ IsTracked(ctx.m.jt[ad.link])
    THEN MapInsert(crawlerLinks, ad.bodyID, <<ctx.b, ad.link>>)
    ELSE crawlerLinks

\* the fields an ODELink starts with
NewLink(l) ==
    [link |-> l, bodyID |-> NullID, jointID |-> NullID, joint |-> "none",
     attached |-> NullID, kinematic |-> FALSE, limits |-> FALSE, servo |-> FALSE,
     geomID |-> <<>>, offsetMap |-> {}, triMeshDataID |-> FALSE,
     vertices |-> 0, triangles |-> 0]

\* ODELink::ODELink, for link l alone: push_back(this), createLinkBody when
\* the body has a world, createGeometry with the built-in collision backend
constructLink(acc, ctx, parentBodyID, l) ==
    LET Made(cl, a2) ==
            [odeLinks |-> Append(acc.odeLinks, a2), crawlerLinks |-> cl, last |-> a2]
        Geometry(a1) ==
            Made(IF ctx.worldID # NullID
                 THEN registerCrawler(acc.crawlerLinks, a1, ctx, parentBodyID)
                 ELSE acc.crawlerLinks,
                 IF ~ctx.useWorldCollision
                 THEN createGeometry(a1, ctx.m.shape[l], ctx.run, ctx.b) ELSE a1)
    IN  Geometry(IF ctx.worldID # NullID
                 THEN createLinkBody(NewLink(l), ctx, parentBodyID) ELSE NewLink(l))

\* a constructor that registers the adapter after the children's (mutant)
RECURSIVE ODELinkChildrenFirst(_, _, _, _)
ODELinkChildrenFirst(acc, ctx, parentBodyID, l) ==
    LET mine == constructLink([acc EXCEPT !.odeLinks = <<>>], ctx, parentBodyID, l)
        RECURSIVE Loop(_, _)
        Loop(a, c) ==
            IF c = 0 THEN a
            ELSE Loop(ODELinkChildrenFirst(a, ctx, mine.last.bodyID, c), sibling(ctx.m, c))
        below == Loop([mine EXCEPT !.odeLinks = acc.odeLinks], child(ctx.m, l))
    IN  [below EXCEPT !.odeLinks = Append(@, mine.last)]

\* ODELink::ODELink: the link itself, then its children in child/sibling order
RECURSIVE ODELink(_, _, _, _)
ODELink(acc, ctx, parentBodyID, l) ==
    LET RECURSIVE Loop(_, _, _)
        Loop(a, c, bodyID) ==
            IF c = 0 THEN a
            ELSE Loop(ODELink(a, ctx, bodyID, c), sibling(ctx.m, c), bodyID)
        Descend(mine) == Loop(mine, child(ctx.m, l), mine.last.bodyID)
    IN  Descend(constructLink(acc, ctx, parentBodyID, l))

----------------------------------------------------------------------------
(* ODEBody *)

\* ODESimulatorItem::createSimulationBody / ODEBody::ODEBody
createSimulationBody ==
    [odeLinks |-> <<>>, worldID |-> NullID, spaceID |-> NullID, geometryId |-> 0,
     planeJoint |-> FALSE, extraJoints |-> <<>>, fault |-> FALSE,
     torque |-> <<>>, forceSensors |-> <<>>, rateSensors |-> FALSE,
     forceSensorFeedbacks |-> <<>>]

\* what ODEBody::createBody and the ODELink constructor read of the simulator
Context(b, m, c, s, worldID) ==
    [b |-> b, m |-> m, run |-> s.run, worldID |-> worldID,
     useWorldCollision |-> c.useWorldCollision, velocityMode |-> c.velocityMode,
     isJointLimitMode |-> c.isJointLimitMode, flipYZ |-> s.flipYZ]

\* ODEBody::createBody, the geometryIdToLink table of the external backend:
\* entry geometryId + link index is the adapter at position i
fillGeometryIdToLink(table, b, m, odeLinks, geometryId) ==
    LET size == geometryId + Len(odeLinks)
        owner(k) ==
            { i \in 1..Len(odeLinks) : geometryId + index(m, odeLinks[i].link) = k - 1 }
    IN  [k \in 1..size |->
            IF owner(k) # {} THEN <<b, CHOOSE i \in owner(k) : \A j \in owner(k) : j <= i>>
            ELSE IF k <= Len(table) THEN table[k] ELSE NullID]

\* the adapter setExtraJoints finds for a referenced link.  A reference is
\* <<owner, i>>: the link of index i of this body ("self") or of another
\* body ("other").  found: odeLink is set; matched: odeLinkPair[i] is set
findAdapter(odeLinks, m, ref) ==
    IF ref[2] < Len(odeLinks)
    THEN [found |-> TRUE,
          matched |-> ref[1] = "self" /\ index(m, odeLinks[ref[2] + 1].link) = ref[2],
          adapter |-> odeLinks[ref[2] + 1]]
    ELSE [found |-> FALSE, matched |-> FALSE, adapter |-> NewLink(0)]

\* ODEBody::setExtraJoints, one pass of the loop over the extra joints: the
\* inner loop leaves at the first link whose index is past the adapter list,
\* then the joint is built when odeLinkPair[1] is set.  The anchor is read
\* through odeLinkPair[0]; when that is null the read is undefined
\* (access = "null") and the joint is attached to whatever the read yields
setExtraJoint(acc, odeLinks, m, worldID, ej, j) ==
    LET Joint(first, second) ==
            [type |-> ej.type, j |-> j, world |-> worldID,
             body1 |-> IF first.matched THEN first.adapter.bodyID ELSE <<"undefined">>,
             body2 |-> second.adapter.bodyID]
        Pair(first, second) ==
            IF ~second.matched THEN acc
            ELSE [joints |-> IF ej.type \in {"piston", "ball"}
                             THEN Append(acc.joints, Joint(first, second))
                             ELSE acc.joints,
                  fault |-> acc.fault \/ ~first.matched]
        Second(first) ==
            Pair(first, IF first.found THEN findAdapter(odeLinks, m, ej.link[2])
                        ELSE [found |-> FALSE, matched |-> FALSE, adapter |-> NewLink(0)])
    IN  Second(findAdapter(odeLinks, m, ej.link[1]))

\* ODEBody::setExtraJoints
setExtraJoints(odeLinks, m, worldID) ==
    LET RECURSIVE Loop(_, _)
        Loop(acc, j) ==
            IF j > Len(m.extraJoints) THEN acc
            ELSE Loop(setExtraJoint(acc, odeLinks, m, worldID, m.extraJoints[j], j), j + 1)
    IN  Loop([joints |-> <<>>, fault |-> FALSE], 1)

\* ODELink::setTorqueToODE on adapter ad: the call, the joint handle it goes
\* through, and whether it writes (dJointAddHingeTorque / dJointAddSliderForce)
setTorqueToODE(ad, m) ==
    [link |-> ad.link, jointID |-> ad.jointID, kind |-> "torque",
     written |-> Link_isRotationalJoint(m, ad.link) \/ Link_isSlideJoint(m, ad.link)]

\* ODELink::setVelocityToODE (USE_AMOTOR is false: dParamVel of the joint)
setVelocityToODE(ad, m) ==
    [link |-> ad.link, jointID |-> ad.jointID, kind |-> "velocity",
     written |-> Link_isRotationalJoint(m, ad.link) \/ Link_isSlideJoint(m, ad.link)]

\* ODEBody::setTorqueToODE: the calls on the adapters after the first
ODEBody_setTorqueToODE(odeLinks, m) ==
    [i \in 1..(Len(odeLinks) - 1) |-> setTorqueToODE(odeLinks[i + 1], m)]

\* ODEBody::setVelocityToODE
ODEBody_setVelocityToODE(odeLinks, m) ==
    [i \in 1..(Len(odeLinks) - 1) |-> setVelocityToODE(odeLinks[i + 1], m)]

\* one of the calls writes through the null joint handle: undefined
undefinedTarget(calls) ==
    \E i \in 1..Len(calls) : calls[i].written /\ calls[i].jointID = NullID

\* the loop of createBody over the force sensors: dJointSetFeedback on the
\* joint of the adapter at the index of the sensor's link
setFeedbacks(odeLinks, m) ==
    [i \in 1..Len(m.forceSensors) |->
        odeLinks[index(m, m.forceSensors[i]) + 1].jointID]

\* ODEBody::createBody
createBody(ob, b, m, c, s) ==
    LET worldID == IF m.static THEN NullID ELSE s.worldID
        ctx == Context(b, m, c, s, worldID)
        geometryId == IF c.useWorldCollision THEN Len(s.geometryIdToLink) ELSE ob.geometryId
        spaceID == IF c.useWorldCollision THEN ob.spaceID ELSE <<"space", s.run, b>>
        Made(built, extra, torque, feedbacks) ==
            [body |-> [odeLinks |-> built.odeLinks, worldID |-> worldID,
                       spaceID |-> spaceID, geometryId |-> geometryId,
                       planeJoint |-> c.is2Dmode /\ worldID # NullID,
                       extraJoints |-> extra.joints,
                       torque |-> torque,
                       forceSensors |-> m.forceSensors,
                       rateSensors |-> m.rateSensors,
                       forceSensorFeedbacks |-> feedbacks,
                       fault |-> \/ extra.fault
                                 \/ undefinedTarget(torque)
                                 \/ \E i \in 1..Len(feedbacks) : feedbacks[i] = NullID],
             sim  |-> [s EXCEPT !.crawlerLinks = built.crawlerLinks,
                                !.geometryIdToLink =
                                    IF c.useWorldCollision
                                    THEN fillGeometryIdToLink(@, b, m, built.odeLinks,
                                                              geometryId)
                                    ELSE @]]
        Extra(built) == Made(built, setExtraJoints(built.odeLinks, m, worldID),
                             ODEBody_setTorqueToODE(built.odeLinks, m),
                             setFeedbacks(built.odeLinks, m))
    IN  Extra(ODELink([odeLinks |-> ob.odeLinks, crawlerLinks |-> s.crawlerLinks],
                      ctx, NullID, rootLink(m)))

----------------------------------------------------------------------------
(* ODESimulatorItemImpl: construction of a run *)

\* pi/2, in the unit of the model's angles (quarter turns)
PI_2 == 1

\* the barrel angle stored for a configured value d2
storedBarrelAngle(d2) == IF d2 # 0 THEN (IF PI_2 - d2 = 0 THEN 0 ELSE d2) ELSE PI_2

\* ODESimulatorItemImpl::preserveMecanumWheelSetting, entry i of "links".
\* A link name is a link id, 0 names no link of the body, -1 is a node that
\* is no scalar; a barrel angle is <<q>>, or <<>> when it is no number.
preserveWheel(setting, m, odeLinks, i) ==
    LET name == m.wheelLinks[i]
        hasAngle == i <= Len(m.barrelAngles)
        found == { j \in 1..Len(odeLinks) : odeLinks[j].link = name }
    IN  IF name = -1 \/ ~(name \in LinkIds(m)) THEN setting
        ELSE IF m.jt[name] # "crawler" THEN setting
        ELSE IF hasAngle /\ m.barrelAngles[i] = <<>> THEN setting
        ELSE LET d == IF hasAngle THEN storedBarrelAngle(m.barrelAngles[i][1]) ELSE 0
             IN  IF found = {} THEN setting
                 ELSE MapInsert(setting, odeLinks[Min(found)].bodyID, d)

\* a listing loop that returns at the first entry it discards (mutant)
preserveMecanumWheelSettingAbort(setting, m, odeLinks) ==
    LET RECURSIVE Loop(_, _)
        Loop(st, i) ==
            IF i > Len(m.wheelLinks) THEN st
            ELSE IF ~(m.wheelLinks[i] \in LinkIds(m)) THEN st
            ELSE IF m.jt[m.wheelLinks[i]] # "crawler" THEN st
            ELSE Loop(preserveWheel(st, m, odeLinks, i), i + 1)
    IN  Loop(setting, 1)

\* ODESimulatorItemImpl::preserveMecanumWheelSetting
preserveMecanumWheelSetting(setting, m, odeLinks) ==
    LET RECURSIVE Loop(_, _)
        Loop(st, i) == IF i > Len(m.wheelLinks) THEN st
                       ELSE Loop(preserveWheel(st, m, odeLinks, i), i + 1)
    IN  Loop(setting, 1)

\* ODESimulatorItemImpl::addBody, the registration of one kind of device
registerDevices(devs, odeLinks, onLinks, fresh) ==
    LET RECURSIVE Loop(_, _)
        Loop(d, i) ==
            IF i > Len(odeLinks) THEN d
            ELSE Loop(IF odeLinks[i].link \in onLinks
                      THEN MapInsert(d, odeLinks[i].bodyID, fresh) ELSE d, i + 1)
    IN  Loop(devs, 1)

\* ODESimulatorItemImpl::addBody
addBody(st, b, m, c) ==
    LET Devices(made, links) ==
            [sim |-> [made.sim EXCEPT
                        !.mecanumWheelSetting = preserveMecanumWheelSetting(@, m, links),
                        !.vacuumGripperDevs =
                            registerDevices(@, links, m.vacuumGrippers,
                                            [on |-> m.gripperOn, obj |-> NullID]),
                        !.nailDriverDevs =
                            registerDevices(@, links, m.nailDrivers, [on |-> TRUE])],
             bodies |-> [st.bodies EXCEPT ![b] = made.body]]
        Created(made) == Devices(made, made.body.odeLinks)
    IN  Created(createBody(st.bodies[b], b, m, c, st.sim))

\* a clear that leaves the group as it is (mutant)
dJointGroupKept(g) == g

\* dJointGroupEmpty(contactJointGroupID)
dJointGroupEmpty(g) == <<>>

\* ODESimulatorItemImpl::clear
clear(s) ==
    [s EXCEPT !.worldID = NullID, !.spaceID = NullID,
              !.crawlerLinks = EmptyMap, !.vacuumGripperDevs = EmptyMap,
              !.nailDriverDevs = EmptyMap, !.mecanumWheelSetting = EmptyMap,
              !.geometryIdToLink = <<>>]

\* the functions initializeSimulation hands to addPostDynamicsFunction
postDynamicsFunctions(s) ==
    IF DOMAIN s.nailDriverDevs # {} THEN <<"nailDriverCheck", "nailedObjectLimitCheck">>
    ELSE <<>>

\* ODESimulatorItemImpl::initializeSimulation on freshly created ODEBody
\* objects.  postDynamics is the host's list of post-dynamics functions, which
\* the host empties before it calls initializeSimulation
initializeSimulation(s, models, c) ==
    LET cleared == clear(s)
        s0 == [cleared EXCEPT !.run = s.run + 1,
                              !.flipYZ = c.is2Dmode,
                              !.worldID = <<"world", s.run + 1>>,
                              !.spaceID = IF c.useWorldCollision THEN NullID
                                          ELSE <<"space", s.run + 1>>,
                              !.postDynamics = <<>>]
        RECURSIVE Loop(_, _)
        Loop(st, i) == IF i > Len(models) THEN st
                       ELSE Loop(addBody(st, i, models[i], c), i + 1)
        Added(st) == [st EXCEPT !.sim.postDynamics = postDynamicsFunctions(st.sim)]
    IN  Added(Loop([sim |-> s0,
                    bodies |-> [b \in DOMAIN models |-> createSimulationBody]], 1))

----------------------------------------------------------------------------
(* Vectors on the integer grid *)

Zero3 == <<0, 0, 0>>

Neg(v) == <<-v[1], -v[2], -v[3]>>

Scale(k, v) == <<k * v[1], k * v[2], k * v[3]>>

Add(a, b) == <<a[1] + b[1], a[2] + b[2], a[3] + b[3]>>

Sub(a, b) == <<a[1] - b[1], a[2] - b[2], a[3] - b[3]>>

Dot(a, b) == a[1] * b[1] + a[2] * b[2] + a[3] * b[3]

Cross(a, b) == <<a[2] * b[3] - a[3] * b[2],
                 a[3] * b[1] - a[1] * b[3],
                 a[1] * b[2] - a[2] * b[1]>>

NormSq(v) == Dot(v, v)

Abs(x) == IF x < 0 THEN -x ELSE x

RECURSIVE Gcd(_, _)
Gcd(a, b) == IF b = 0 THEN a ELSE Gcd(b, a % b)

\* Vector3::normalize, on the grid: the shortest grid vector of the same
\* direction stands for the unit vector
normalize(v) ==
    LET g == Gcd(Gcd(Abs(v[1]), Abs(v[2])), Abs(v[3]))
    IN  IF g = 0 THEN v ELSE <<v[1] \div g, v[2] \div g, v[3] \div g>>

\* cosine and sine of an angle of q quarter turns
Cos4(q) == CASE q % 4 = 0 -> 1 [] q % 4 = 1 -> 0 [] q % 4 = 2 -> -1 [] OTHER -> 0
Sin4(q) == CASE q % 4 = 0 -> 0 [] q % 4 = 1 -> 1 [] q % 4 = 2 -> 0 [] OTHER -> -1

\* AngleAxis(q, n).toRotationMatrix() * v for a unit axis n (Rodrigues' formula)
Rotate(q, n, v) ==
    Add(Add(Scale(Cos4(q), v), Scale(Sin4(q), Cross(n, v))),
        Scale(Dot(n, v) * (1 - Cos4(q)), n))

\* AngleAxis(q, n).toRotationMatrix().transpose() * v
RotateTransposed(q, n, v) == Rotate(-q, n, v)

----------------------------------------------------------------------------
(* The contact resolver: nearCallback and collisionCallback *)

\* the depth above which a tracked contact is discarded (0.001), in units of 0.0005
TrackedDepthLimit == 2

\* surface.mu2 of a tracked contact (0.5), in tenths
TrackedMu2 == 5

\* dContactApprox1
IsotropicMode == {"Approx1_1", "Approx1_2"}

\* dContactFDir1 | dContactMotion1 | dContactMu2 | dContactApprox1_2 | dContactApprox1_1
TrackedMode == {"FDir1", "Motion1", "Mu2", "Approx1_1", "Approx1_2"}

\* a resolver without the test of the rolling direction (mutant)
tooShortNever(dir) == FALSE

\* the test dir.norm() < 1.0e-5: on the grid a vector that is not zero has
\* norm 1 or more
tooShort(dir) == NormSq(dir) < 1

\* the loop body of nearCallback / collisionCallback for a contact of a pair
\* without tracked link
plainSurface(friction) ==
    [mode |-> IsotropicMode, mu |-> friction, mu2 |-> 0, fdir1 |-> Zero3, motion1 |-> 0]

\* the surface of a tracked contact that is not discarded, given the rolling
\* direction and the target slip speed
trackedSurface(friction, dir, sign, motion1) ==
    IF tooShort(dir) THEN plainSurface(friction)
    ELSE [mode |-> TrackedMode, mu |-> friction, mu2 |-> TrackedMu2,
          fdir1 |-> normalize(Scale(sign, dir)), motion1 |-> motion1]

\* the crawlerLinks lookups at the head of both callbacks: the tracked link,
\* the sign, and which body's wheel setting is read
findCrawler(s, body1ID, body2ID) ==
    IF DOMAIN s.crawlerLinks = {} THEN [link |-> NullID, sign |-> 1, body |-> NullID]
    ELSE IF body2ID \in DOMAIN s.crawlerLinks
         THEN [link |-> s.crawlerLinks[body2ID], sign |-> -1, body |-> body2ID]
         ELSE IF body1ID \in DOMAIN s.crawlerLinks
              THEN [link |-> s.crawlerLinks[body1ID], sign |-> 1, body |-> body1ID]
              ELSE [link |-> NullID, sign |-> 1, body |-> NullID]

\* ODESimulatorItemImpl::getMecanumWheelSetting
getMecanumWheelSetting(s, dBdyId) ==
    IF dBdyId \in DOMAIN s.mecanumWheelSetting
    THEN [found |-> TRUE, angle |-> s.mecanumWheelSetting[dBdyId]]
    ELSE [found |-> FALSE, angle |-> 0]

\* the contact loop of nearCallback: the contact joints created for the
\* contacts of one leaf pair.  ls is the state of the tracked link:
\* axis = R() * a(), u, dq, jt = jointType()
nearContacts(s, friction, body1ID, body2ID, contacts, ls, step) ==
    LET cr == findCrawler(s, body1ID, body2ID)
        mw == IF cr.link = NullID THEN [found |-> FALSE, angle |-> 0]
              ELSE getMecanumWheelSetting(s, cr.body)
        surface(i) ==
            LET n == contacts[i].normal
                dir0 == Cross(ls.axis, n)
                dir == IF mw.found THEN RotateTransposed(mw.angle, n, dir0) ELSE dir0
                motion1 == IF ls.jt = "pct" THEN ls.dq ELSE ls.u
            IN  IF cr.link = NullID THEN plainSurface(friction)
                ELSE trackedSurface(friction, dir, cr.sign, motion1)
        Kept(joint) == cr.link = NullID \/ ~(contacts[joint.src].depth > TrackedDepthLimit)
    IN  SelectSeq([i \in 1..Len(contacts) |->
                      [body1 |-> body1ID, body2 |-> body2ID, src |-> i,
                       step |-> step, normal |-> contacts[i].normal,
                       surface |-> surface(i)]], Kept)

\* the contact loop of ODESimulatorItemImpl::collisionCallback: the contact
\* normal is the reported normal negated
externalContacts(s, friction, body1ID, body2ID, collisions, ls, step) ==
    LET cr == findCrawler(s, body1ID, body2ID)
        surface(i) ==
            LET n == Neg(collisions[i].normal)
                dir == Cross(ls.axis, n)
            IN  IF cr.link = NullID THEN plainSurface(friction)
                ELSE trackedSurface(friction, dir, cr.sign, ls.u)
        Kept(joint) ==
            cr.link = NullID \/ ~(collisions[joint.src].depth > TrackedDepthLimit)
    IN  SelectSeq([i \in 1..Len(collisions) |->
                      [body1 |-> body1ID, body2 |-> body2ID, src |-> i,
                       step |-> step, normal |-> Neg(collisions[i].normal),
                       surface |-> surface(i)]], Kept)

\* VacuumGripper::isGripping() and isGripping(object)
isGripping(vg) == vg.obj # NullID
isGrippingObject(vg, objId) == vg.obj = objId

\* ODESimulatorItemImpl::vacuumGripperNearCallback: the devices afterwards,
\* isContactProcessingSkip, and the release checks (limitCheck) it evaluated.
\* hit: checkContact found a contact to absorb; limit: limitCheck reports the
\* limit exceeded
vacuumGripperNearCallback(devs, body1ID, body2ID, hit, limit) ==
    LET key == IF body1ID \in DOMAIN devs THEN body1ID ELSE body2ID
        objId == IF body1ID \in DOMAIN devs THEN body2ID ELSE body1ID
        vg == devs[key]
        none == [devs |-> devs, skip |-> FALSE, checks |-> {}]
    IN  IF body1ID = NullID \/ body2ID = NullID THEN none
        ELSE IF DOMAIN devs = {} THEN none
        ELSE IF ~(body1ID \in DOMAIN devs) /\ ~(body2ID \in DOMAIN devs) THEN none
        ELSE IF ~vg.on
             THEN [none EXCEPT
                     !.devs = IF isGripping(vg) THEN [devs EXCEPT ![key].obj = NullID]
                              ELSE devs]
        ELSE IF ~isGripping(vg)
             THEN [none EXCEPT
                     !.devs = IF hit THEN [devs EXCEPT ![key].obj = objId] ELSE devs]
        ELSE [devs |-> IF isGrippingObject(vg, objId) /\ limit
                       THEN [devs EXCEPT ![key].obj = NullID] ELSE devs,
              skip |-> TRUE,
              checks |-> IF isGrippingObject(vg, objId)
                         THEN {[kind |-> "gripper", dev |-> key]} ELSE {}]

\* NailedObjectManager::get / addObject: insert keeps a record already present
addObject(objectMap, objId, obj) == MapInsert(objectMap, objId, obj)

\* ODESimulatorItemImpl::nailDriverNearCallback: the nailed-object map
\* afterwards.  hit: checkContact found a contact to nail; ready: the driver
\* is ready to fire
nailDriverNearCallback(objectMap, devs, worldID, body1ID, body2ID, hit, ready) ==
    LET objId == IF body1ID \in DOMAIN devs THEN body2ID ELSE body1ID
    IN  IF body1ID = NullID \/ body2ID = NullID \/ DOMAIN devs = {} THEN objectMap
        ELSE IF ~(body1ID \in DOMAIN devs) /\ ~(body2ID \in DOMAIN devs) THEN objectMap
        ELSE IF hit /\ ready
             THEN addObject(objectMap, objId, [worldID |-> worldID, bodyID |-> objId])
             ELSE objectMap

\* ODESimulatorItemImpl::nailDriverCheck: distantCheck of every nail driver
nailDriverCheck(devs) == { [kind |-> "driver", dev |-> k] : k \in DOMAIN devs }

\* ODESimulatorItemImpl::nailedObjectGripCheck
nailedObjectGripCheck(vgDevs, objId) ==
    \E k \in DOMAIN vgDevs : isGrippingObject(vgDevs[k], objId)

\* ODESimulatorItemImpl::nailedObjectLimitCheck on the map of the
\* NailedObjectManager: isLimited is evaluated for every record, and a record
\* over its limit is erased unless one of this item's grippers holds the
\* object.  limited: the records for which isLimited reports true
nailedObjectLimitCheck(objectMap, vgDevs, limited) ==
    [map |-> [k \in { x \in DOMAIN objectMap :
                        ~(x \in limited /\ ~nailedObjectGripCheck(vgDevs, x)) }
                |-> objectMap[k]],
     checks |-> { [kind |-> "nailed", dev |-> k] : k \in DOMAIN objectMap }]

\* the host calls the post-dynamics functions fs in the order they were added
postDynamics(fs, s, objectMap, limited) ==
    LET RECURSIVE Loop(_, _)
        Loop(acc, i) ==
            IF i > Len(fs) THEN acc
            ELSE IF fs[i] = "nailDriverCheck"
                 THEN Loop([acc EXCEPT !.checks = @ \cup nailDriverCheck(s.nailDriverDevs)],
                           i + 1)
                 ELSE LET r == nailedObjectLimitCheck(acc.map, s.vacuumGripperDevs, limited)
                      IN  Loop([map |-> r.map, checks |-> acc.checks \cup r.checks], i + 1)
    IN  Loop([map |-> objectMap, checks |-> {}], 1)

\* the leaf branch of nearCallback for numContacts = Len(contacts); hooks are
\* the device hooks it called, in the order of the calls
nearCallback(s, objectMap, friction, body1ID, body2ID, contacts, ls, dev, step) ==
    LET Hooked(vg, s1) ==
            IF vg.skip
            THEN [sim |-> s1, nailed |-> objectMap, skip |-> TRUE, joints |-> <<>>,
                  hooks |-> <<"vacuumGripper">>, checks |-> vg.checks]
            ELSE [sim |-> s1,
                  nailed |-> nailDriverNearCallback(objectMap, s.nailDriverDevs,
                                                    s.worldID, body1ID, body2ID,
                                                    dev.nailHit, dev.ready),
                  skip |-> FALSE,
                  joints |-> nearContacts(s, friction, body1ID, body2ID, contacts, ls,
                                          step),
                  hooks |-> <<"vacuumGripper", "nailDriver">>, checks |-> vg.checks]
        Gripper(vg) == Hooked(vg, [s EXCEPT !.vacuumGripperDevs = vg.devs])
    IN  IF Len(contacts) = 0
        THEN [sim |-> s, nailed |-> objectMap, skip |-> FALSE, joints |-> <<>>,
              hooks |-> <<>>, checks |-> {}]
        ELSE Gripper(vacuumGripperNearCallback(s.vacuumGripperDevs, body1ID, body2ID,
                                               dev.hit, dev.limit))

\* ODESimulatorItemImpl::collisionCallback
collisionCallback(s, objectMap, friction, body1ID, body2ID, collisions, ls, step) ==
    [sim |-> s, nailed |-> objectMap, skip |-> FALSE,
     joints |-> externalContacts(s, friction, body1ID, body2ID, collisions, ls, step),
     hooks |-> <<>>, checks |-> {}]

----------------------------------------------------------------------------
(* Initial values *)

\* ODESimulatorItemImpl::ODESimulatorItemImpl: the configuration a new item has.
\* Friction coefficients, ERP and over-relaxation are in tenths, gravity in
\* 1e-5 m/s^2, the surface layer depth in units of 0.0001; the two
\* FloatingNumberString fields hold the string they were given.
DefaultConfig ==
    [is2Dmode |-> FALSE, useWorldCollision |-> FALSE, velocityMode |-> FALSE,
     isJointLimitMode |-> FALSE, friction |-> 10, stepMode |-> "iterative",
     gravity |-> <<0, 0, -980665>>, globalERP |-> 4, globalCFM |-> "1.0e-10",
     numIterations |-> 50, overRelaxation |-> 13, enableMaxCorrectingVel |-> TRUE,
     maxCorrectingVel |-> "1.0e-3", surfaceLayerDepth |-> 1]

\* ODESimulatorItemImpl::initialize
NewSim ==
    [run |-> 0, flipYZ |-> FALSE, worldID |-> NullID, spaceID |-> NullID,
     crawlerLinks |-> EmptyMap, mecanumWheelSetting |-> EmptyMap,
     vacuumGripperDevs |-> EmptyMap, nailDriverDevs |-> EmptyMap,
     geometryIdToLink |-> <<>>, postDynamics |-> <<>>]

NoCall == [path |-> "none"]

NoKin == [op |-> "none"]

\* an Archive nothing has been written to
NoArchive == EmptyMap

\* a second item as its constructor leaves it; the handles of its runs are
\* numbered after those of the first item
NewPeer ==
    [cfg |-> DefaultConfig, sim |-> [NewSim EXCEPT !.run = MaxRuns],
     odeBodies |-> <<>>, checked |-> {}]

----------------------------------------------------------------------------
(* Kinematic trees drawn as input *)

RECURSIVE ReachesRoot(_, _, _)
ReachesRoot(parent, l, fuel) ==
    \/ parent[l] = 0
    \/ fuel > 0 /\ parent[l] # l /\ ReachesRoot(parent, parent[l], fuel - 1)

\* the parent vectors of the rooted trees on the links 1..n
Trees(n) ==
    { parent \in [1..n -> 0..n] :
        /\ Cardinality({ l \in 1..n : parent[l] = 0 }) = 1
        /\ \A l \in 1..n : ReachesRoot(parent, l, n) }

NoShape == <<>>

BoxLeaf == [prim |-> "BOX", scaled |-> FALSE, diag |-> TRUE, scale |-> <<1, 1, 1>>,
            nverts |-> 8, ntris |-> 12]

\* the joint types drawn for a root link and for the other links
TreeRootTypes == {"free", "crawler"}
TreeJointTypes == {"rotational", "crawler"}

TreeJoints(n, parent) ==
    { jt \in [1..n -> TreeRootTypes \cup TreeJointTypes] :
        \A l \in 1..n : IF parent[l] = 0 THEN jt[l] \in TreeRootTypes
                        ELSE jt[l] \in TreeJointTypes }

\* a body without devices and without wheel settings
PlainBody(static, n, parent, jt) ==
    [static |-> static, n |-> n, parent |-> parent, jt |-> jt,
     shape |-> [l \in 1..n |-> <<BoxLeaf>>],
     wheelLinks |-> <<>>, barrelAngles |-> <<>>,
     vacuumGrippers |-> {}, gripperOn |-> FALSE, nailDrivers |-> {},
     extraJoints |-> <<>>, forceSensors |-> <<>>, rateSensors |-> FALSE]

TreeBodies ==
    UNION { UNION { { PlainBody(static, n, parent, jt) :
                        static \in BOOLEAN, jt \in TreeJoints(n, parent) }
                    : parent \in Trees(n) }
            : n \in 1..MaxLinks }

----------------------------------------------------------------------------
(* Transfer of the kinematic state: ODELink::setKinematicStateToODE[flip]
   and ODELink::getKinematicStateFromODE[flip] *)

\* a matrix is the tuple of its rows
Identity3 == <<(<<1, 0, 0>>), (<<0, 1, 0>>), (<<0, 0, 1>>)>>

MatVec(M, v) == <<Dot(M[1], v), Dot(M[2], v), Dot(M[3], v)>>

Column(M, j) == <<M[1][j], M[2][j], M[3][j]>>

MatMul(A, B) ==
    [i \in 1..3 |-> <<Dot(A[i], Column(B, 1)), Dot(A[i], Column(B, 2)),
                      Dot(A[i], Column(B, 3))>>]

\* toInternal / makeInternal
toInternal(v) == <<v[1], v[3], -v[2]>>

\* a pull that copies the solver's components as they are (mutant)
fromInternalUnflipped(v) == v

\* the assignments "link->p() << p.x(), -p.z(), p.y()" of
\* getKinematicStateFromODEflip
fromInternal(v) == <<v[1], -v[3], v[2]>>

\* ODELink::setKinematicStateToODE
setKinematicStateToODE(k) ==
    LET l == k.link
        lc == MatVec(l.R, l.c)
        c == Add(l.p, lc)
        geom(g) ==
            LET Ro == IF g.offset = <<>> THEN Identity3 ELSE g.offset.R
                po == IF g.offset = <<>> THEN Zero3 ELSE g.offset.p
            IN  [g EXCEPT !.pos = Add(Add(MatVec(l.R, po), l.p), l.c),
                          !.R = MatMul(l.R, Ro)]
    IN  IF k.hasBody
        THEN [k EXCEPT !.solver = [R |-> l.R, pos |-> c,
                                   lvel |-> Add(l.v, Cross(l.w, lc)), avel |-> l.w]]
        ELSE [k EXCEPT !.geoms = [i \in 1..Len(k.geoms) |-> geom(k.geoms[i])]]

\* ODELink::setKinematicStateToODEflip
setKinematicStateToODEflip(k) ==
    LET l == k.link
        R2 == <<l.R[1], l.R[3], Neg(l.R[2])>>
        lc == MatVec(l.R, l.c)
        c == Add(l.p, lc)
        v == Add(l.v, Cross(l.w, lc))
    IN  IF k.hasBody
        THEN [k EXCEPT !.solver = [R |-> R2, pos |-> <<c[1], c[3], -c[2]>>,
                                   lvel |-> <<v[1], v[3], -v[2]>>,
                                   avel |-> <<l.w[1], l.w[3], -l.w[2]>>]]
        ELSE [k EXCEPT !.geoms = [i \in 1..Len(k.geoms) |->
                                     [k.geoms[i] EXCEPT !.pos = <<c[1], c[2], -c[3]>>,
                                                        !.R = R2]]]

\* the joint branch at the head of both getKinematicStateFromODE[flip]
pullJoint(k) ==
    IF k.jointed THEN [k.link EXCEPT !.q = k.hinge[1], !.dq = k.hinge[2]] ELSE k.link

\* ODELink::getKinematicStateFromODE, for a link that owns a solver body
getKinematicStateFromODE(k) ==
    LET l == pullJoint(k)
        R == k.solver.R
        c == MatVec(R, l.c)
        w == k.solver.avel
    IN  [k EXCEPT !.link = [l EXCEPT !.R = R, !.p = Sub(k.solver.pos, c), !.w = w,
                                     !.v = Sub(k.solver.lvel, Cross(w, c))]]

\* ODELink::getKinematicStateFromODEflip, for a link that owns a solver body
getKinematicStateFromODEflip(k) ==
    LET l == pullJoint(k)
        R == <<k.solver.R[1], Neg(k.solver.R[3]), k.solver.R[2]>>
        c == toInternal(MatVec(R, l.c))
        p == Sub(k.solver.pos, c)
        w == k.solver.avel
        v == Sub(k.solver.lvel, Cross(w, c))
    IN  [k EXCEPT !.link = [l EXCEPT !.R = R, !.p = fromInternal(p),
                                     !.w = fromInternal(w), !.v = fromInternal(v)]]

\* the placement of a primitive within its link (currentTransformWithoutScaling
\* of the leaf), as addMesh stores it in offsetMap
LeafOffset == [R |-> <<(<<0, -1, 0>>), (<<1, 0, 0>>), (<<0, 0, 1>>)>>, p |-> <<1, 0, 0>>]

\* ODEBody::setKinematicStateToODE(flipYZ) at the end of createBody, for the
\* root adapter of the first body when the state k of its link is given: the
\* adapter's geometries are looked up in its offsetMap
pushBuilt(k, bodies, s) ==
    LET Push(k1) ==
            [(IF k1.flip THEN setKinematicStateToODEflip(k1)
              ELSE setKinematicStateToODE(k1))
             EXCEPT !.op = "pushed", !.before = k.link]
        Adapter(a) ==
            Push([k EXCEPT
                    !.flip = s.flipYZ,
                    !.hasBody = a.bodyID # NullID,
                    !.geoms = [i \in 1..Len(a.geomID) |->
                                  [offset |-> IF a.geomID[i] \in a.offsetMap
                                              THEN LeafOffset ELSE <<>>,
                                   pos |-> Zero3, R |-> Identity3]]])
    IN  IF k = NoKin \/ bodies = <<>> THEN k ELSE Adapter(bodies[1].odeLinks[1])

----------------------------------------------------------------------------
(* Actions *)

\* the host is between two iterations of its loop: the post-dynamics
\* functions registered for the run have been called for the latest step
hostIdle ==
    \/ sim.postDynamics = <<>>
    \/ stepNo = 0
    \/ log # <<>> /\ log[Len(log)].op = "postdyn"

\* the host starts a simulation: SimulatorItem creates the ODEBody objects
\* (createSimulationBody) and calls ODESimulatorItemImpl::initializeSimulation.
\* After an undefined access in createBody (a read through a missing adapter
\* in setExtraJoints, a call on the null joint handle) the call returns or the
\* process ends
InitializeSimulation ==
    /\ pc \in {"created", "ready"}
    /\ hostIdle
    /\ sim.run < MaxRuns
    /\ \E r \in {initializeSimulation(sim, bodyModels, cfg)} :
           /\ sim' = r.sim
           /\ odeBodies' = r.bodies
           /\ kin' = pushBuilt(kin, r.bodies, r.sim)
           /\ pc' \in IF \E b \in DOMAIN r.bodies : r.bodies[b].fault
                      THEN {"ready", "ended"} ELSE {"ready"}
    /\ group' = dJointGroupEmpty(group)
    /\ stepNo' = 0
    /\ log' = <<>>
    /\ active' = <<>>
    /\ lastCall' = NoCall
    /\ UNCHANGED <<bodyModels, cfg, nailedObjects, archive, peer>>

----------------------------------------------------------------------------
(* stepSimulation *)

\* a step that integrates before it collides (mutant)
phaseAfterIntegrateFirst(p) ==
    CASE p = "actuate" -> "clear"
      [] p = "clear" -> "integrate"
      [] p = "integrate" -> "collide"
      [] p = "collide" -> "post"
      [] OTHER -> "ready"

\* the order of the phases in ODESimulatorItemImpl::stepSimulation
phaseAfter(p) ==
    CASE p = "actuate" -> "clear"
      [] p = "clear" -> "collide"
      [] p = "collide" -> "integrate"
      [] p = "integrate" -> "post"
      [] OTHER -> "ready"

\* the bodies of activeSimBodies, in the order of the vector
RECURSIVE InOrder(_)
InOrder(S) == IF S = {} THEN <<>> ELSE <<Min(S)>> \o InOrder(S \ {Min(S)})

\* an actuate phase that hands every body both kinds of target (mutant)
actuateAllBoth(act, c, bodies, models) ==
    [i \in 1..Len(act) |->
        [op |-> "actuate", body |-> act[i],
         target |-> IF c.velocityMode THEN "velocity" ELSE "torque",
         calls |-> ODEBody_setVelocityToODE(bodies[act[i]].odeLinks, models[act[i]])
                   \o ODEBody_setTorqueToODE(bodies[act[i]].odeLinks, models[act[i]])]]

\* the loop over activeSimBodies at the head of stepSimulation
actuateAll(act, c, bodies, models) ==
    [i \in 1..Len(act) |->
        [op |-> "actuate", body |-> act[i],
         target |-> IF c.velocityMode THEN "velocity" ELSE "torque",
         calls |-> IF c.velocityMode
                   THEN ODEBody_setVelocityToODE(bodies[act[i]].odeLinks, models[act[i]])
                   ELSE ODEBody_setTorqueToODE(bodies[act[i]].odeLinks, models[act[i]])]]

\* ODEBody::updateForceSensors(flipYZ): one entry per force sensor (the read
\* of its feedback buffer and notifyStateChange)
updateForceSensors(b, ob, flipYZ) ==
    [i \in 1..Len(ob.forceSensors) |->
        [op |-> "force", body |-> b, sensor |-> i, link |-> ob.forceSensors[i],
         jointID |-> ob.forceSensorFeedbacks[i], flip |-> flipYZ]]

\* ODEBody::getKinematicStateFromODE(flipYZ): one call per adapter
pullBody(b, ob, flipYZ) ==
    [i \in 1..Len(ob.odeLinks) |->
        [op |-> "pull", body |-> b, link |-> ob.odeLinks[i].link,
         bodyID |-> ob.odeLinks[i].bodyID, flip |-> flipYZ]]

\* a post-step loop that refreshes the rate sensors before it pulls (mutant)
postStepGyroFirst(act, bodies, c, s) ==
    LET RECURSIVE Loop(_, _)
        Loop(l, i) ==
            IF i > Len(act) THEN l
            ELSE Loop(l \o (IF c.is2Dmode
                            THEN <<[op |-> "align", body |-> act[i],
                                    bodyID |-> bodies[act[i]].odeLinks[1].bodyID]>>
                            ELSE <<>>)
                        \o updateForceSensors(act[i], bodies[act[i]], s.flipYZ)
                        \o (IF bodies[act[i]].rateSensors
                            THEN <<[op |-> "gyro", body |-> act[i]]>> ELSE <<>>)
                        \o pullBody(act[i], bodies[act[i]], s.flipYZ),
                      i + 1)
    IN  Loop(<<>>, 1)

\* the loop over activeSimBodies at the end of stepSimulation
postStep(act, bodies, c, s) ==
    LET RECURSIVE Loop(_, _)
        Loop(l, i) ==
            IF i > Len(act) THEN l
            ELSE Loop(l \o (IF c.is2Dmode
                            THEN <<[op |-> "align", body |-> act[i],
                                    bodyID |-> bodies[act[i]].odeLinks[1].bodyID]>>
                            ELSE <<>>)
                        \o updateForceSensors(act[i], bodies[act[i]], s.flipYZ)
                        \o pullBody(act[i], bodies[act[i]], s.flipYZ)
                        \o (IF bodies[act[i]].rateSensors
                            THEN <<[op |-> "gyro", body |-> act[i]]>> ELSE <<>>),
                      i + 1)
    IN  Loop(<<>>, 1)

\* an operation of the post-step loop that reads through a null handle:
\* dBodyGetQuaternion / dBodyGetPosition of the null body, dJointGetFeedback of
\* the null joint
undefinedRead(e) ==
    \/ e.op \in {"align", "pull"} /\ e.bodyID = NullID
    \/ e.op = "force" /\ e.jointID = NullID

\* the number of contact callbacks the step in progress has run
callbacks == Cardinality({ i \in 1..Len(log) : log[i].op = "contact" })

\* the state of no link
NoLinkState == [axis |-> Zero3, u |-> 0, dq |-> 0, jt |-> "none"]

\* the adapters that take part in collision detection: <<body, position>>
collidingLinks ==
    { x \in UNION { { <<b, i>> : i \in 1..Len(odeBodies[b].odeLinks) }
                    : b \in 1..Len(odeBodies) } :
        bodyModels[x[1]].shape[odeBodies[x[1]].odeLinks[x[2]].link] # NoShape }

adapterOf(x) == odeBodies[x[1]].odeLinks[x[2]]

jointTypeOf(x) == bodyModels[x[1]].jt[adapterOf(x).link]

\* the tracked link whose state a callback on the pair (x1, x2) is about: the
\* link the crawlerLinks lookup finds, else a link of tracked joint type
subjectOf(x1, x2) ==
    LET cr == findCrawler(sim, adapterOf(x1).bodyID, adapterOf(x2).bodyID)
    IN  IF cr.link # NullID THEN bodyModels[cr.link[1]].jt[cr.link[2]]
        ELSE IF IsTracked(jointTypeOf(x2)) THEN jointTypeOf(x2)
        ELSE IF IsTracked(jointTypeOf(x1)) THEN jointTypeOf(x1)
        ELSE "none"

\* the states a tracked link of joint type jt can be in when a callback reads it
linkStates(D, jt) ==
    IF jt = "none" THEN {NoLinkState}
    ELSE { [axis |-> a, u |-> r[1], dq |-> r[2], jt |-> jt] : a \in D.axes, r \in D.rates }

\* what the device hooks can find for the pair
deviceInputs(b1, b2) ==
    { [hit |-> h[1], limit |-> h[2], nailHit |-> n[1], ready |-> n[2]] :
        h \in IF b1 \in DOMAIN sim.vacuumGripperDevs \/ b2 \in DOMAIN sim.vacuumGripperDevs
              THEN BOOLEAN \X BOOLEAN ELSE {<<FALSE, FALSE>>},
        n \in IF b1 \in DOMAIN sim.nailDriverDevs \/ b2 \in DOMAIN sim.nailDriverDevs
              THEN BOOLEAN \X BOOLEAN ELSE {<<FALSE, FALSE>>} }

\* isVacuumGripper on the two bodies of a pair, the first body first: the
\* gripper among them, the null handle if there is none
gripperOf(devs, body1ID, body2ID) ==
    IF body1ID \in DOMAIN devs THEN body1ID
    ELSE IF body2ID \in DOMAIN devs THEN body2ID
    ELSE NullID

\* the record kept of a callback; of the gripper of the pair it keeps whether
\* it was on, the object it held when the callback began and the one it
\* holds at its end
callRecord(path, x1, x2, contacts, ls, r) ==
    LET Record(b1, b2, key) ==
            [path |-> path, link1 |-> x1, link2 |-> x2,
             jt1 |-> jointTypeOf(x1), jt2 |-> jointTypeOf(x2),
             body1 |-> b1, body2 |-> b2,
             contacts |-> contacts, ls |-> ls, friction |-> cfg.friction,
             skip |-> r.skip, joints |-> r.joints, hooks |-> r.hooks,
             gripper |-> key,
             object |-> IF key = b1 THEN b2 ELSE b1,
             on |-> key # NullID /\ sim.vacuumGripperDevs[key].on,
             held |-> IF key = NullID THEN NullID ELSE sim.vacuumGripperDevs[key].obj,
             holds |-> IF key = NullID THEN NullID
                       ELSE r.sim.vacuumGripperDevs[key].obj]
        Pair(b1, b2) == Record(b1, b2, gripperOf(sim.vacuumGripperDevs, b1, b2))
    IN  Pair(adapterOf(x1).bodyID, adapterOf(x2).bodyID)

\* the collision backend stepSimulation is about to use was set up by the
\* initializeSimulation of the run: the table of the external detector's
\* geometries is filled, or the space of the built-in one exists
backendSetUp ==
    IF cfg.useWorldCollision THEN sim.geometryIdToLink # <<>> ELSE sim.spaceID # NullID

\* stepSimulation is called with one of the sets of active bodies and runs
\* its first loop.  A target written through the null joint handle is
\* undefined: the loop goes on or the process ends there
ActuateOn(sets) ==
    /\ pc = "ready"
    /\ hostIdle
    /\ stepNo < MaxSteps
    /\ \E act \in sets :
           /\ active' = InOrder(act)
           /\ \E l \in {actuateAll(InOrder(act), cfg, odeBodies, bodyModels)} :
                  \/ /\ log' = l
                     /\ pc' = phaseAfter("actuate")
                  \/ \E i \in 1..Len(l) :
                         /\ undefinedTarget(l[i].calls)
                         /\ \A j \in 1..(i - 1) : ~undefinedTarget(l[j].calls)
                         /\ log' = SubSeq(l, 1, i)
                         /\ pc' = "ended"
    /\ stepNo' = stepNo + 1
    /\ lastCall' = NoCall
    /\ UNCHANGED <<bodyModels, cfg, sim, odeBodies, group, kin, nailedObjects,
                   archive, peer>>

ClearContacts ==
    /\ pc = "clear"
    /\ group' = dJointGroupEmpty(group)
    /\ log' = Append(log, [op |-> "clear"])
    /\ pc' = phaseAfter("clear")
    /\ UNCHANGED <<bodyModels, cfg, sim, odeBodies, active, lastCall, stepNo, kin,
                   nailedObjects,
                   archive, peer>>

\* dSpaceCollide on the top space: the pairs of the spaces that createBody
\* made for the bodies
spacePairs ==
    { p \in (1..Len(odeBodies)) \X (1..Len(odeBodies)) : p[1] # p[2] }

\* dSpaceCollide2 on the spaces of two bodies: a link of the one with a link
\* of the other
dSpaceCollide2(b1, b2) ==
    { p \in collidingLinks \X collidingLinks : p[1][1] = b1 /\ p[2][1] = b2 }

\* the leaf pairs of a near phase that also collides every space with itself,
\* as the branch disabled in nearCallback would (mutant)
leafPairsWithinSpaces ==
    UNION { dSpaceCollide2(p[1], p[2]) : p \in spacePairs }
    \cup UNION { { p \in dSpaceCollide2(b, b) : p[1] # p[2] } : b \in 1..Len(odeBodies) }

\* the leaf pairs nearCallback is called with: its space branch hands every
\* pair of spaces to dSpaceCollide2 and nothing else
leafPairs == UNION { dSpaceCollide2(p[1], p[2]) : p \in spacePairs }

\* the size of the contact array of nearCallback
MaxNumContacts == 100

\* dCollide(g1, g2, MaxNumContacts, ...): of the contacts found, as many as
\* the array holds
dCollide(found) == SubSeq(found, 1, Min({Len(found), MaxNumContacts}))

\* dSpaceCollide reports a leaf pair of two bodies' spaces to nearCallback
NearCallbackOn(D, more) ==
    /\ pc = "collide"
    /\ ~cfg.useWorldCollision
    /\ backendSetUp
    /\ more
    /\ \E x1 \in collidingLinks, x2 \in collidingLinks :
           /\ <<x1, x2>> \in leafPairs
           /\ \E contacts \in { dCollide(found) : found \in D.contacts },
                 ls \in linkStates(D, subjectOf(x1, x2)),
                 dev \in deviceInputs(adapterOf(x1).bodyID, adapterOf(x2).bodyID) :
                  \E r \in {nearCallback(sim, nailedObjects, cfg.friction,
                                         adapterOf(x1).bodyID, adapterOf(x2).bodyID,
                                         contacts, ls, dev, stepNo)} :
                      /\ sim' = r.sim
                      /\ nailedObjects' = r.nailed
                      /\ group' = group \o r.joints
                      /\ lastCall' = callRecord("near", x1, x2, contacts, ls, r)
                      /\ log' = Append(log, [op |-> "contact", checks |-> r.checks])
    /\ UNCHANGED <<bodyModels, cfg, odeBodies, pc, active, stepNo, kin,
                   archive, peer>>

\* the external collision detector reports a pair to collisionCallback
CollisionCallbackOn(D, more) ==
    /\ pc = "collide"
    /\ cfg.useWorldCollision
    /\ backendSetUp
    /\ more
    /\ \E x1 \in collidingLinks, x2 \in collidingLinks :
           /\ x1 # x2
           /\ \E contacts \in D.contacts, ls \in linkStates(D, subjectOf(x1, x2)) :
                  \E r \in {collisionCallback(sim, nailedObjects, cfg.friction,
                                              adapterOf(x1).bodyID, adapterOf(x2).bodyID,
                                              contacts, ls, stepNo)} :
                      /\ sim' = r.sim
                      /\ nailedObjects' = r.nailed
                      /\ group' = group \o r.joints
                      /\ lastCall' = callRecord("external", x1, x2, contacts, ls, r)
                      /\ log' = Append(log, [op |-> "contact", checks |-> r.checks])
    /\ UNCHANGED <<bodyModels, cfg, odeBodies, pc, active, stepNo, kin,
                   archive, peer>>

Actuate == ActuateOn(SUBSET (1..Len(odeBodies)))

\* collision detection returns
EndCollide ==
    /\ pc = "collide"
    /\ backendSetUp
    /\ pc' = phaseAfter("collide")
    /\ UNCHANGED <<bodyModels, cfg, sim, odeBodies, active, group, lastCall, log,
                   stepNo, kin, nailedObjects,
                   archive, peer>>

\* dWorldQuickStep / dWorldStep
Integrate ==
    /\ pc = "integrate"
    /\ log' = Append(log, [op |-> "integrate", mode |-> cfg.stepMode])
    /\ pc' = phaseAfter("integrate")
    /\ UNCHANGED <<bodyModels, cfg, sim, odeBodies, active, group, lastCall, stepNo,
                   kin, nailedObjects,
                   archive, peer>>

\* the host calls the post-dynamics functions of the run after stepSimulation
\* has returned
PostDynamics ==
    /\ pc = "ready"
    /\ ~hostIdle
    /\ \E limited \in SUBSET (DOMAIN nailedObjects) :
           \E r \in {postDynamics(sim.postDynamics, sim, nailedObjects, limited)} :
               /\ nailedObjects' = r.map
               /\ log' = Append(log, [op |-> "postdyn", checks |-> r.checks])
    /\ UNCHANGED <<bodyModels, cfg, sim, odeBodies, pc, active, group, lastCall, stepNo,
                   kin, archive, peer>>

\* the post-step loop and the return.  Reading the state of the null body
\* (a link without solver body) or the feedback of the null joint is
\* undefined: the step returns or the process ends there
PostStep ==
    /\ pc = "post"
    /\ \E l \in {postStep(active, odeBodies, cfg, sim)} :
           \/ /\ log' = log \o l
              /\ pc' = phaseAfter("post")
           \/ \E i \in 1..Len(l) :
                  /\ undefinedRead(l[i])
                  /\ \A j \in 1..(i - 1) : ~undefinedRead(l[j])
                  /\ log' = log \o SubSeq(l, 1, i)
                  /\ pc' = "ended"
    /\ UNCHANGED <<bodyModels, cfg, sim, odeBodies, active, group, lastCall, stepNo,
                   kin, nailedObjects,
                   archive, peer>>

----------------------------------------------------------------------------
(* The bodies of the scenes *)

\* a static floor of one link
Ground ==
    [static |-> TRUE, n |-> 1, parent |-> <<0>>, jt |-> <<"fixed">>,
     shape |-> <<(<<BoxLeaf>>)>>, wheelLinks |-> <<>>, barrelAngles |-> <<>>,
     vacuumGrippers |-> {}, gripperOn |-> FALSE, nailDrivers |-> {},
     extraJoints |-> <<>>, forceSensors |-> <<>>, rateSensors |-> FALSE]

\* a chassis (link 1) carrying a wheel with crawler joint (link 2)
Cart ==
    [static |-> FALSE, n |-> 2, parent |-> <<0, 1>>, jt |-> <<"free", "crawler">>,
     shape |-> <<(<<BoxLeaf>>), (<<BoxLeaf>>)>>, wheelLinks |-> <<>>,
     barrelAngles |-> <<>>,
     vacuumGrippers |-> {}, gripperOn |-> FALSE, nailDrivers |-> {},
     extraJoints |-> <<>>, forceSensors |-> <<>>, rateSensors |-> FALSE]

\* a chassis without shape (link 1) carrying a wheel with crawler joint
\* (link 2), listed as omni wheel, and a belt with pseudo continuous track
\* joint (link 3)
Vehicle(angles) ==
    [static |-> FALSE, n |-> 3, parent |-> <<0, 1, 1>>,
     jt |-> <<"free", "crawler", "pct">>,
     shape |-> <<NoShape, (<<BoxLeaf>>), (<<BoxLeaf>>)>>, wheelLinks |-> <<2>>,
     barrelAngles |-> angles,
     vacuumGrippers |-> {}, gripperOn |-> FALSE, nailDrivers |-> {},
     extraJoints |-> <<>>, forceSensors |-> <<>>, rateSensors |-> FALSE]

\* a body whose only link, the root, has a crawler joint
Roller ==
    [static |-> FALSE, n |-> 1, parent |-> <<0>>, jt |-> <<"crawler">>,
     shape |-> <<(<<BoxLeaf>>)>>, wheelLinks |-> <<>>, barrelAngles |-> <<>>,
     vacuumGrippers |-> {}, gripperOn |-> FALSE, nailDrivers |-> {},
     extraJoints |-> <<>>, forceSensors |-> <<>>, rateSensors |-> FALSE]

\* a free body carrying a vacuum gripper
Gripper(on) ==
    [static |-> FALSE, n |-> 1, parent |-> <<0>>, jt |-> <<"free">>,
     shape |-> <<(<<BoxLeaf>>)>>, wheelLinks |-> <<>>, barrelAngles |-> <<>>,
     vacuumGrippers |-> {1}, gripperOn |-> on, nailDrivers |-> {},
     extraJoints |-> <<>>, forceSensors |-> <<>>, rateSensors |-> FALSE]

\* the contact lists a callback can be handed
ContactSeqs(C) == UNION { [1..n -> C] : n \in 1..MaxContacts }

----------------------------------------------------------------------------
(* The step loop on a floor and a cart *)

StepInputs ==
    [contacts |-> {<<[normal |-> <<0, 0, 1>>, depth |-> 1]>>},
     axes |-> {<<0, 1, 0>>}, rates |-> {<<1, 1>>}]

Init ==
    /\ bodyModels = <<Ground, Cart>>
    /\ cfg \in { [DefaultConfig EXCEPT !.useWorldCollision = w, !.is2Dmode = d] :
                   w \in BOOLEAN, d \in BOOLEAN }
    /\ sim = NewSim
    /\ odeBodies = <<>>
    /\ pc = "created"
    /\ active = <<>>
    /\ group = <<>>
    /\ lastCall = NoCall
    /\ log = <<>>
    /\ stepNo = 0
    /\ kin = NoKin
    /\ nailedObjects = EmptyMap
    /\ archive = NoArchive
    /\ peer = NewPeer

NearCallback == NearCallbackOn(StepInputs, callbacks < MaxCallbacks)

CollisionCallback == CollisionCallbackOn(StepInputs, callbacks < MaxCallbacks)

Next ==
    \/ InitializeSimulation
    \/ Actuate
    \/ ClearContacts
    \/ NearCallback
    \/ CollisionCallback
    \/ EndCollide
    \/ Integrate
    \/ PostStep

Spec == Init /\ [][Next]_vars

\* C2: in every step of every run the contact joint group holds no joint at
\* the moment the collision phase begins, and during the collision and the
\* integration phase it holds no joint that an earlier step created
C2_GroupEmptiedEveryStep ==
    /\ (pc = "collide" /\ callbacks = 0) => group = <<>>
    /\ pc \in {"collide", "integrate"} =>
           \A i \in 1..Len(group) : group[i].step = stepNo

\* the integration phase of a second step, with contact joints in the group
C2_Witness ==
    /\ stepNo = 2
    /\ pc = "integrate"
    /\ Len(group) > 1

\* the phase an operation of the log belongs to
phaseRank(op) ==
    CASE op = "actuate" -> 1
      [] op = "clear" -> 2
      [] op = "contact" -> 3
      [] op = "integrate" -> 4
      [] OTHER -> 5

opCount(op) == Cardinality({ i \in 1..Len(log) : log[i].op = op })

\* C3: within one step the operations run in the order actuate, clear,
\* collide, integrate, post-step: nothing is actuated after the clear, no
\* contact joint is created once integration has started, no state is pulled
\* before integration, and a step that returns has actuated every active body,
\* cleared once, integrated once and pulled every active body
C3_PhaseOrder ==
    /\ \A i \in 1..Len(log) : \A j \in i..Len(log) :
           phaseRank(log[i].op) <= phaseRank(log[j].op)
    /\ opCount("clear") <= 1
    /\ opCount("integrate") <= 1
    /\ (pc = "ready" /\ stepNo > 0) =>
           /\ opCount("clear") = 1
           /\ opCount("integrate") = 1
           /\ \A a \in 1..Len(active) :
                  /\ \E i \in 1..Len(log) : log[i].op = "actuate" /\ log[i].body = active[a]
                  /\ \E i \in 1..Len(log) : log[i].op = "pull" /\ log[i].body = active[a]

\* a step on two active bodies that ran contact callbacks and returned
C3_Witness ==
    /\ pc = "ready"
    /\ stepNo > 0
    /\ Len(active) = 2
    /\ opCount("contact") = 2
    /\ opCount("pull") > 0

\* C6: state is pulled only for links that own a solver body, whatever
\* bodies the caller passes as active
C6_PullOnlyWithBody ==
    \A i \in 1..Len(log) : log[i].op = "pull" => log[i].bodyID # NullID

----------------------------------------------------------------------------
(* Inputs of the transfer of the kinematic state *)

\* the values drawn for the kinematic state of a link
Vecs == {<<0, 0, 0>>, <<1, 2, 3>>, <<-2, 1, 0>>}

Rots == {Identity3,
         <<(<<1, 0, 0>>), (<<0, 0, -1>>), (<<0, 1, 0>>)>>,
         <<(<<0, -1, 0>>), (<<1, 0, 0>>), (<<0, 0, 1>>)>>,
         <<(<<0, 0, 1>>), (<<1, 0, 0>>), (<<0, 1, 0>>)>>}

\* the offsetMap entry of a geometry: none, or a placement within the link
Offsets == {<<>>, [R |-> <<(<<0, -1, 0>>), (<<1, 0, 0>>), (<<0, 0, 1>>)>>,
                   p |-> <<1, 0, 0>>]}

\* a link with its solver body, or with one geometry when it has no body
\* (link of a static body); hinge is the angle and rate the solver reports
KinStates ==
    UNION { { [op |-> "none", flip |-> f, hasBody |-> hb, jointed |-> hb /\ j,
               link |-> [p |-> p, R |-> R, v |-> v, w |-> w, c |-> c,
                         q |-> 0, dq |-> 0],
               before |-> <<>>,
               solver |-> [R |-> Identity3, pos |-> Zero3, lvel |-> Zero3,
                           avel |-> Zero3],
               hinge |-> <<1, 2>>,
               geoms |-> IF hb THEN <<>>
                         ELSE <<[offset |-> o, pos |-> Zero3, R |-> Identity3]>>] :
              p \in Vecs, v \in Vecs, w \in Vecs, c \in Vecs \ {<<-2, 1, 0>>},
              R \in Rots, o \in IF hb THEN {<<>>} ELSE Offsets,
              j \in IF hb THEN BOOLEAN ELSE {FALSE} }
            : f \in BOOLEAN, hb \in BOOLEAN }

\* ODEBody::setKinematicStateToODE(flipYZ), for one adapter
PushState ==
    /\ kin.op \in {"none", "pulled"}
    /\ kin' = [(IF kin.flip THEN setKinematicStateToODEflip(kin)
                ELSE setKinematicStateToODE(kin))
               EXCEPT !.op = "pushed", !.before = kin.link]
    /\ UNCHANGED <<bodyModels, cfg, sim, odeBodies, pc, active, group, lastCall, log,
                   stepNo, nailedObjects,
                   archive, peer>>

\* ODEBody::getKinematicStateFromODE(flipYZ), for one adapter with solver body
PullState ==
    /\ kin.op = "pushed"
    /\ kin.hasBody
    /\ kin' = [(IF kin.flip THEN getKinematicStateFromODEflip(kin)
                ELSE getKinematicStateFromODE(kin))
               EXCEPT !.op = "pulled"]
    /\ UNCHANGED <<bodyModels, cfg, sim, odeBodies, pc, active, group, lastCall, log,
                   stepNo, nailedObjects,
                   archive, peer>>

InitKin ==
    /\ kin \in KinStates
    /\ bodyModels = <<>>
    /\ cfg = DefaultConfig
    /\ sim = NewSim
    /\ odeBodies = <<>>
    /\ pc = "created"
    /\ active = <<>>
    /\ group = <<>>
    /\ lastCall = NoCall
    /\ log = <<>>
    /\ stepNo = 0
    /\ nailedObjects = EmptyMap
    /\ archive = NoArchive
    /\ peer = NewPeer

NextKin == PushState \/ PullState

SpecKin == InitKin /\ [][NextKin]_vars

\* C4: for a link that owns a solver body, a push followed at once by a pull
\* under the same convention, direct or flipped, leaves the link's position,
\* rotation, linear velocity and angular velocity as they were before the push
C4_PushPullRestores ==
    (kin.op = "pulled" /\ kin.hasBody) =>
        /\ kin.link.p = kin.before.p
        /\ kin.link.R = kin.before.R
        /\ kin.link.v = kin.before.v
        /\ kin.link.w = kin.before.w

\* a flipped round trip of a link that is rotated, displaced and moving, with
\* its centre of mass off the link origin
C4_Witness ==
    /\ kin.op = "pulled"
    /\ kin.flip
    /\ kin.hasBody
    /\ kin.before.R # Identity3
    /\ kin.before.c = <<1, 2, 3>>
    /\ kin.before.w = <<1, 2, 3>>
    /\ kin.before.v = <<-2, 1, 0>>
    /\ kin.before.p = <<1, 2, 3>>

\* the basis change of the flipped convention, in the two readings of its
\* sign: s = 1 is solver-Y = -model-Z, solver-Z = model-Y; s = -1 is its
\* inverse, solver-Y = model-Z, solver-Z = -model-Y
flipBasis(s, v) == <<v[1], -s * v[3], s * v[2]>>

flipBasisRows(s, M) == <<M[1], Scale(-s, M[3]), Scale(s, M[2])>>

\* C5: under the flipped convention a push applies one and the same basis
\* change to every component it transfers: position, rotation, linear and
\* angular velocity of a link with solver body, position and rotation of
\* every geometry of a link without
C5_OneBasisChange ==
    (kin.op = "pushed" /\ kin.flip) =>
        \E s \in {1, -1} :
            LET l == kin.before
                lc == MatVec(l.R, l.c)
                c == Add(l.p, lc)
            IN  IF kin.hasBody
                THEN /\ kin.solver.pos = flipBasis(s, c)
                     /\ kin.solver.R = flipBasisRows(s, l.R)
                     /\ kin.solver.lvel = flipBasis(s, Add(l.v, Cross(l.w, lc)))
                     /\ kin.solver.avel = flipBasis(s, l.w)
                ELSE \A i \in 1..Len(kin.geoms) :
                         /\ kin.geoms[i].pos = flipBasis(s, c)
                         /\ kin.geoms[i].R = flipBasisRows(s, l.R)

----------------------------------------------------------------------------
(* The contact resolver on a scene of a floor, a vehicle, a roller and a
   gripper: one callback in the collision phase of the first step *)

\* the barrelAngles listings of the vehicle's wheel: none, 0, pi/2
BarrelConfigs == {<<>>, <<(<<0>>)>>, <<(<<PI_2>>)>>}

ContactScene(angles, on) == <<Ground, Vehicle(angles), Roller, Gripper(on)>>

ResolverInputs ==
    [contacts |-> ContactSeqs({ [normal |-> n, depth |-> d] :
                                  n \in {<<1, 0, 0>>, <<0, 0, 1>>},
                                  d \in {TrackedDepthLimit, TrackedDepthLimit + 1} }),
     axes |-> {<<1, 0, 0>>, <<0, 1, 0>>},
     rates |-> {<<1, 2>>, <<2, 1>>}]

\* the devices after a gripper has gripped the body obj in an earlier callback
gripping(s, obj) ==
    [s EXCEPT !.vacuumGripperDevs = [k \in DOMAIN @ |-> [@[k] EXCEPT !.obj = obj]]]

\* the collision phase of the first step of the first run begins; with the
\* built-in backend the gripper may hold the vehicle's wheel
InitContact ==
    /\ \E angles \in BarrelConfigs, on \in BOOLEAN :
           bodyModels = ContactScene(angles, on)
    /\ cfg \in { [DefaultConfig EXCEPT !.useWorldCollision = w] : w \in BOOLEAN }
    /\ \E r \in {initializeSimulation(NewSim, bodyModels, cfg)} :
           /\ odeBodies = r.bodies
           /\ sim \in {r.sim} \cup
                      (IF cfg.useWorldCollision THEN {}
                       ELSE {gripping(r.sim, BodyHandle(1, 2, 2))})
    /\ pc = "collide"
    /\ active = <<1, 2, 3, 4>>
    /\ log = Append(actuateAll(active, cfg, odeBodies, bodyModels), [op |-> "clear"])
    /\ stepNo = 1
    /\ group = <<>>
    /\ lastCall = NoCall
    /\ kin = NoKin
    /\ nailedObjects = EmptyMap
    /\ archive = NoArchive
    /\ peer = NewPeer

FirstNearCallback == NearCallbackOn(ResolverInputs, lastCall = NoCall)

FirstCollisionCallback == CollisionCallbackOn(ResolverInputs, lastCall = NoCall)

NextContact == FirstNearCallback \/ FirstCollisionCallback

SpecContact == InitContact /\ [][NextContact]_vars

\* a callback has run on a pair with a link of tracked joint type
trackedCall ==
    /\ lastCall # NoCall
    /\ IsTracked(lastCall.jt1) \/ IsTracked(lastCall.jt2)

\* the contact joints created for contact i of the callback
jointsOf(i) == { j \in 1..Len(lastCall.joints) : lastCall.joints[j].src = i }

\* C7: for a pair with a tracked link, a contact deeper than 0.001 produces no
\* contact joint, in nearCallback and in collisionCallback alike, and every
\* contact of the pair that is not deeper produces exactly one
C7_DeepTrackedContactsDiscarded ==
    trackedCall =>
        \A i \in 1..Len(lastCall.contacts) :
            IF lastCall.contacts[i].depth > TrackedDepthLimit
            THEN jointsOf(i) = {}
            ELSE Cardinality(jointsOf(i)) = 1

\* C8: a contact joint of a pair with a tracked link whose rolling direction,
\* track axis x contact normal, vanishes has isotropic friction with mu the
\* global friction coefficient, and neither friction direction nor target
\* slip speed, whatever barrel angle the wheel is configured with
C8_ParallelNormalIsotropic ==
    trackedCall =>
        \A j \in 1..Len(lastCall.joints) :
            LET joint == lastCall.joints[j]
            IN  (/\ lastCall.contacts[joint.src].depth <= TrackedDepthLimit
                 /\ Cross(lastCall.ls.axis, joint.normal) = Zero3) =>
                    /\ joint.surface.mode = IsotropicMode
                    /\ joint.surface.mu = lastCall.friction
                    /\ ~("FDir1" \in joint.surface.mode)
                    /\ ~("Motion1" \in joint.surface.mode)

\* the wheel registered as tracked link and listed with barrel angle 0 (stored
\* as pi/2) touches the floor with the normal along its axis, in nearCallback
C8_Witness ==
    /\ trackedCall
    /\ lastCall.path = "near"
    /\ lastCall.body1 = NullID
    /\ lastCall.body2 \in DOMAIN sim.crawlerLinks
    /\ lastCall.body2 \in DOMAIN sim.mecanumWheelSetting
    /\ sim.mecanumWheelSetting[lastCall.body2] = PI_2
    /\ \E j \in 1..Len(lastCall.joints) :
           /\ Cross(lastCall.ls.axis, lastCall.joints[j].normal) = Zero3
           /\ lastCall.joints[j].surface.mode = IsotropicMode

\* the rate a tracked link is commanded: dq of a pseudo continuous track, u
\* of a crawler
commandedRate(ls) == IF ls.jt = "pct" THEN ls.dq ELSE ls.u

\* C9: a contact joint of a pair with a tracked link, made for a contact not
\* deeper than 0.001 with a rolling direction that does not vanish, is
\* anisotropic with mu = global friction and mu2 = 0.5, its target slip speed
\* is the tracked link's commanded rate, and its friction direction is the
\* normalised track axis x contact normal, negated exactly when the tracked
\* body is the second of the pair
C9_TrackedContactAnisotropic ==
    trackedCall =>
        \A j \in 1..Len(lastCall.joints) :
            LET joint == lastCall.joints[j]
                dir == Cross(lastCall.ls.axis, joint.normal)
                sign == IF IsTracked(lastCall.jt2) THEN -1 ELSE 1
            IN  (/\ lastCall.contacts[joint.src].depth <= TrackedDepthLimit
                 /\ dir # Zero3) =>
                    /\ joint.surface.mode = TrackedMode
                    /\ joint.surface.mu = lastCall.friction
                    /\ joint.surface.mu2 = TrackedMu2
                    /\ joint.surface.motion1 = commandedRate(lastCall.ls)
                    /\ joint.surface.fdir1 = normalize(Scale(sign, dir))

\* a callback has run on a pair whose tracked link is the vehicle's wheel,
\* the link listed in mecanumWheelSetting
wheelCall ==
    /\ lastCall # NoCall
    /\ findCrawler(sim, lastCall.body1, lastCall.body2).link = <<2, 2>>

\* C10: for the wheel listed in the omni-wheel settings, a barrel angle left
\* unconfigured and a barrel angle configured as pi/2 both give the un-rotated
\* track direction, track axis x contact normal, and a barrel angle
\* configured as 0 gives a direction that differs from it
C10_BarrelAngleDirections ==
    wheelCall =>
        \A j \in 1..Len(lastCall.joints) :
            LET joint == lastCall.joints[j]
                cr == findCrawler(sim, lastCall.body1, lastCall.body2)
                plain == normalize(Scale(cr.sign, Cross(lastCall.ls.axis, joint.normal)))
            IN  plain # Zero3 =>
                    /\ "FDir1" \in joint.surface.mode
                    /\ IF bodyModels[2].barrelAngles = <<(<<0>>)>>
                       THEN joint.surface.fdir1 # plain
                       ELSE joint.surface.fdir1 = plain

----------------------------------------------------------------------------
(* Construction of one body from any kinematic tree *)

InitTree ==
    /\ bodyModels \in { <<m>> : m \in TreeBodies }
    /\ cfg \in { [DefaultConfig EXCEPT !.useWorldCollision = w] : w \in BOOLEAN }
    /\ sim = NewSim
    /\ odeBodies = <<>>
    /\ pc = "created"
    /\ active = <<>>
    /\ group = <<>>
    /\ lastCall = NoCall
    /\ log = <<>>
    /\ stepNo = 0
    /\ kin = NoKin
    /\ nailedObjects = EmptyMap
    /\ archive = NoArchive
    /\ peer = NewPeer

NextTree == InitializeSimulation

SpecTree == InitTree /\ [][NextTree]_vars

\* C1: after createBody the body adapter holds exactly one LinkAdapter per link
\* of the tree, and the adapter at position i is the adapter of the link whose
\* index is i
C1_AdaptersAligned ==
    pc = "ready" =>
        \A b \in 1..Len(bodyModels) :
            LET m == bodyModels[b]
                links == odeBodies[b].odeLinks
            IN  /\ Len(links) = m.n
                /\ \A l \in LinkIds(m) :
                       Cardinality({ i \in 1..Len(links) : links[i].link = l }) = 1
                /\ \A i \in 1..Len(links) : index(m, links[i].link) = i - 1

\* a built body of three links whose root is link 3: the link ids are not in
\* traversal order, and the adapter of the root is stored first
C1_Witness ==
    /\ pc = "ready"
    /\ bodyModels[1].n = 3
    /\ bodyModels[1].parent = <<3, 3, 0>>
    /\ Len(odeBodies[1].odeLinks) = 3
    /\ odeBodies[1].odeLinks[1].link = 3

----------------------------------------------------------------------------
(* Loop-closure joints: ODEBody::setExtraJoints on a body of two links *)

\* the links an extra joint can name: the two links of the body, a link of
\* another body whose index is within the adapter list, and one whose index
\* is past it
ExtraRefs == {<<"self", 0>>, <<"self", 1>>, <<"other", 0>>, <<"other", 2>>}

ExtraJoints ==
    { [type |-> t, link |-> <<r1, r2>>] :
        t \in {"piston", "ball"}, r1 \in ExtraRefs, r2 \in ExtraRefs }

ExtraJointSeqs == UNION { [1..n -> ExtraJoints] : n \in 1..MaxExtraJoints }

\* a free root carrying an arm on a hinge, closed by the extra joints ej
LoopBody(ej) ==
    [PlainBody(FALSE, 2, <<0, 1>>, <<"free", "rotational">>) EXCEPT !.extraJoints = ej]

InitExtra ==
    /\ bodyModels \in { <<LoopBody(ej)>> : ej \in ExtraJointSeqs }
    /\ cfg = DefaultConfig
    /\ sim = NewSim
    /\ odeBodies = <<>>
    /\ pc = "created"
    /\ active = <<>>
    /\ group = <<>>
    /\ lastCall = NoCall
    /\ log = <<>>
    /\ stepNo = 0
    /\ kin = NoKin
    /\ nailedObjects = EmptyMap
    /\ archive = NoArchive
    /\ peer = NewPeer

NextExtra == InitializeSimulation

SpecExtra == InitExtra /\ [][NextExtra]_vars

\* the referenced link has an adapter in the body's adapter list
hasAdapter(b, ref) == ref[1] = "self" /\ ref[2] < Len(odeBodies[b].odeLinks)

\* C11: after createBody the loop-closure joints that exist are exactly those
\* whose two referenced links both have an adapter, each once, in the order
\* of the listing and attached to the two adapters' bodies, and building them
\* made no access through a missing adapter
C11_ExtraJointsSkipMissing ==
    (pc \in {"ready", "ended"} /\ sim.run > 0) =>
        \A b \in 1..Len(odeBodies) :
            LET ej == bodyModels[b].extraJoints
                made == odeBodies[b].extraJoints
                due == { j \in 1..Len(ej) :
                           hasAdapter(b, ej[j].link[1]) /\ hasAdapter(b, ej[j].link[2]) }
            IN  /\ ~odeBodies[b].fault
                /\ { made[k].j : k \in 1..Len(made) } = due
                /\ \A k \in 1..Len(made) :
                       /\ \A k2 \in 1..Len(made) : k < k2 => made[k].j < made[k2].j
                       /\ made[k].type = ej[made[k].j].type
                       /\ made[k].body1 =
                              odeBodies[b].odeLinks[ej[made[k].j].link[1][2] + 1].bodyID
                       /\ made[k].body2 =
                              odeBodies[b].odeLinks[ej[made[k].j].link[2][2] + 1].bodyID

----------------------------------------------------------------------------
(* Devices: a box, a vacuum gripper and a nail driver through runs and steps *)

\* a free body of one link
Box == PlainBody(FALSE, 1, <<0>>, <<"free">>)

\* a tool: a free root carrying a vacuum gripper that is switched on, and a
\* head welded to it carrying a nail driver
Tool ==
    [PlainBody(FALSE, 2, <<0, 1>>, <<"free", "fixed">>) EXCEPT
        !.vacuumGrippers = {1}, !.gripperOn = TRUE, !.nailDrivers = {2}]

DeviceScene == <<Box, Tool>>

InitDevices ==
    /\ bodyModels = DeviceScene
    /\ cfg \in { [DefaultConfig EXCEPT !.useWorldCollision = w] : w \in BOOLEAN }
    /\ sim = NewSim
    /\ odeBodies = <<>>
    /\ pc = "created"
    /\ active = <<>>
    /\ group = <<>>
    /\ lastCall = NoCall
    /\ log = <<>>
    /\ stepNo = 0
    /\ kin = NoKin
    /\ nailedObjects = EmptyMap
    /\ archive = NoArchive
    /\ peer = NewPeer

\* every body of the scene is active in every step
ActuateAll == ActuateOn({1..Len(odeBodies)})

NextDevices ==
    \/ InitializeSimulation
    \/ ActuateAll
    \/ ClearContacts
    \/ NearCallback
    \/ CollisionCallback
    \/ EndCollide
    \/ Integrate
    \/ PostStep
    \/ PostDynamics

SpecDevices == InitDevices /\ [][NextDevices]_vars

\* the run a handle was created in
runOf(h) == h[2]

\* C12: when initializeSimulation has returned, every record of the tracked-
\* link lookup, the vacuum-gripper map, the nail-driver map, the omni-wheel
\* settings and the nailed-object registry is keyed by a body handle of the
\* run that has just been set up
C12_RegistriesOfCurrentRun ==
    (pc = "ready" /\ stepNo = 0) =>
        \A k \in DOMAIN sim.crawlerLinks \cup DOMAIN sim.vacuumGripperDevs
                 \cup DOMAIN sim.nailDriverDevs \cup DOMAIN sim.mecanumWheelSetting
                 \cup DOMAIN nailedObjects :
            runOf(k) = sim.run

\* C13: a callback that reports at least one contact, from the built-in
\* space or from the external collision detector, consults the device hooks,
\* the vacuum gripper's first; it creates contact joints only after both hooks
\* were consulted, and none when a device has claimed the pair
C13_DeviceHooksFirst ==
    (lastCall # NoCall /\ Len(lastCall.contacts) > 0) =>
        /\ lastCall.hooks # <<>>
        /\ lastCall.hooks[1] = "vacuumGripper"
        /\ lastCall.joints # <<>> => lastCall.hooks = <<"vacuumGripper", "nailDriver">>
        /\ lastCall.skip => lastCall.joints = <<>>

\* a step and the host's pass after it are over
stepDone == pc = "ready" /\ stepNo > 0 /\ hostIdle

\* the devices with a release condition: the grippers holding an object, the
\* nail drivers and the nailed objects
releasable ==
    { [kind |-> "gripper", dev |-> k] :
        k \in { x \in DOMAIN sim.vacuumGripperDevs : isGripping(sim.vacuumGripperDevs[x]) } }
    \cup { [kind |-> "driver", dev |-> k] : k \in DOMAIN sim.nailDriverDevs }
    \cup { [kind |-> "nailed", dev |-> k] : k \in DOMAIN nailedObjects }

\* the places of the step where the release condition of device d was evaluated
releaseChecks(d) ==
    { i \in 1..Len(log) : log[i].op \in {"contact", "postdyn"} /\ d \in log[i].checks }

\* C14: when a step is over, the release condition of every vacuum gripper
\* holding an object, of every nail driver and of every nailed object has been
\* evaluated exactly once, in the pass after the step, and no contact callback
\* of the step has evaluated one
C14_ReleaseCheckedOncePerStep ==
    stepDone =>
        /\ \A d \in releasable :
               \E i \in 1..Len(log) : releaseChecks(d) = {i} /\ log[i].op = "postdyn"
        /\ \A i \in 1..Len(log) : log[i].op = "contact" => log[i].checks = {}

----------------------------------------------------------------------------
(* Property setters between the steps of a run *)

\* a setter of ODESimulatorItem assigns one field of the configuration; the
\* host calls it before a run or between two steps
SetProperty(field, values) ==
    /\ pc \in {"created", "ready"}
    /\ hostIdle
    /\ \E v \in values : v # cfg[field] /\ cfg' = [cfg EXCEPT ![field] = v]
    /\ UNCHANGED <<bodyModels, sim, odeBodies, pc, active, group, lastCall, log,
                   stepNo, kin, nailedObjects, archive, peer>>

set2Dmode == SetProperty("is2Dmode", BOOLEAN)

useWorldCollisionDetector == SetProperty("useWorldCollision", BOOLEAN)

setFriction == SetProperty("friction", {5, 10})

setStepMode == SetProperty("stepMode", {"iterative", "bigMatrix"})

\* the collision phase of a step whose backend the run has not set up:
\* dSpaceCollide on the null space, or geometryIdToLink[k] read past the end
\* of the empty table.  Undefined: the phase returns or the process ends
CollideUndefined ==
    /\ pc = "collide"
    /\ ~backendSetUp
    /\ pc' \in {phaseAfter("collide"), "ended"}
    /\ UNCHANGED <<bodyModels, cfg, sim, odeBodies, active, group, lastCall, log,
                   stepNo, kin, nailedObjects, archive, peer>>

InitConfig ==
    /\ bodyModels = <<Ground, Cart>>
    /\ cfg = DefaultConfig
    /\ sim = NewSim
    /\ odeBodies = <<>>
    /\ pc = "created"
    /\ active = <<>>
    /\ group = <<>>
    /\ lastCall = NoCall
    /\ log = <<>>
    /\ stepNo = 0
    /\ kin = NoKin
    /\ nailedObjects = EmptyMap
    /\ archive = NoArchive
    /\ peer = NewPeer

NextConfig ==
    \/ InitializeSimulation
    \/ set2Dmode
    \/ useWorldCollisionDetector
    \/ setFriction
    \/ setStepMode
    \/ ActuateAll
    \/ ClearContacts
    \/ NearCallback
    \/ CollisionCallback
    \/ CollideUndefined
    \/ EndCollide
    \/ Integrate
    \/ PostStep

SpecConfig == InitConfig /\ [][NextConfig]_vars

\* the step in progress, or the latest one, has realigned a body
realigned == \E i \in 1..Len(log) : log[i].op = "align"

\* C15: whatever setters are called after initializeSimulation, until the
\* next one every state read from the solver is converted by the convention
\* the run was set up with, a step on active bodies realigns them if and only
\* if the run was set up with the flipped convention, and the collision phase
\* of a step uses the backend the run was set up with
C15_ConfigurationFixedForRun ==
    /\ \A i \in 1..Len(log) : log[i].op = "pull" => log[i].flip = sim.flipYZ
    /\ (pc = "ready" /\ stepNo > 0 /\ active # <<>>) => (realigned <=> sim.flipYZ)
    /\ pc = "collide" => (cfg.useWorldCollision <=> sim.spaceID = NullID)

----------------------------------------------------------------------------
(* store and restore of the configuration *)

\* properties changed before the configuration is stored
MaxChanged == 2

\* Selection::selectedSymbol of stepMode
selectedSymbol(mode) ==
    IF mode = "iterative" THEN "Iterative (quick step)" ELSE "Big matrix"

\* Selection::select(symbol) of stepMode: an unknown symbol selects nothing
select(mode, symbol) ==
    CASE symbol = "Iterative (quick step)" -> "iterative"
      [] symbol = "Big matrix" -> "bigMatrix"
      [] OTHER -> mode

\* ODESimulatorItemImpl::store: the keys written to the archive
store(c) ==
    [stepMode |-> selectedSymbol(c.stepMode),
     gravity |-> c.gravity,
     friction |-> c.friction,
     jointLimitMode |-> c.isJointLimitMode,
     globalERP |-> c.globalERP,
     globalCFM |-> c.globalCFM,
     numIterations |-> c.numIterations,
     overRelaxation |-> c.overRelaxation,
     limitCorrectingVel |-> c.enableMaxCorrectingVel,
     maxCorrectingVel |-> c.maxCorrectingVel,
     twoDmode |-> c.is2Dmode,
     useWorldItemsCollisionDetector |-> c.useWorldCollision,
     velocityMode |-> c.velocityMode]

\* Archive::read(key, value) / Archive::get(key, default): the value under
\* the key, else what the field holds
read(ar, key, value) == IF key \in DOMAIN ar THEN ar[key] ELSE value

\* ODESimulatorItemImpl::restore into an item holding configuration c
restore(c, ar) ==
    [c EXCEPT
        !.stepMode = IF "stepMode" \in DOMAIN ar THEN select(@, ar.stepMode) ELSE @,
        !.gravity = read(ar, "gravity", @),
        !.friction = read(ar, "friction", @),
        !.isJointLimitMode = read(ar, "jointLimitMode", @),
        !.globalERP = read(ar, "globalERP", @),
        !.globalCFM = read(ar, "globalCFM", @),
        !.numIterations = read(ar, "numIterations", @),
        !.overRelaxation = read(ar, "overRelaxation", @),
        !.enableMaxCorrectingVel = read(ar, "limitCorrectingVel", @),
        !.maxCorrectingVel = read(ar, "maxCorrectingVel", @),
        !.is2Dmode = read(ar, "twoDmode", @),
        !.useWorldCollision = read(ar, "useWorldItemsCollisionDetector", @),
        !.velocityMode = read(ar, "velocityMode", @)]

\* a value other than the default one for every field, as the setters and the
\* property view can assign it
PropertyValues ==
    [is2Dmode |-> {TRUE}, useWorldCollision |-> {TRUE}, velocityMode |-> {TRUE},
     isJointLimitMode |-> {TRUE}, friction |-> {5}, stepMode |-> {"bigMatrix"},
     gravity |-> {<<0, 0, -162000>>}, globalERP |-> {2}, globalCFM |-> {"1.0e-5"},
     numIterations |-> {20}, overRelaxation |-> {10},
     enableMaxCorrectingVel |-> {FALSE}, maxCorrectingVel |-> {"1.0e-2"},
     surfaceLayerDepth |-> {10}]

\* the fields whose value is not the default one
changed(c) == { f \in DOMAIN c : c[f] # DefaultConfig[f] }

\* the host sets a property of an item that has not been stored yet
SetAnyProperty ==
    /\ archive = NoArchive
    /\ Cardinality(changed(cfg)) < MaxChanged
    /\ \E f \in DOMAIN PropertyValues : SetProperty(f, PropertyValues[f])

\* ODESimulatorItem::store
Store ==
    /\ pc = "created"
    /\ archive = NoArchive
    /\ archive' = store(cfg)
    /\ log' = Append(log, [op |-> "store"])
    /\ UNCHANGED <<bodyModels, cfg, sim, odeBodies, pc, active, group, lastCall,
                   stepNo, kin, nailedObjects, peer>>

\* ODESimulatorItem::restore of the archive into a newly constructed item
Restore ==
    /\ archive # NoArchive
    /\ log[Len(log)].op = "store"
    /\ peer' = [peer EXCEPT !.cfg = restore(DefaultConfig, archive)]
    /\ log' = Append(log, [op |-> "restore"])
    /\ UNCHANGED <<bodyModels, cfg, sim, odeBodies, pc, active, group, lastCall,
                   stepNo, kin, nailedObjects, archive>>

InitStore ==
    /\ bodyModels = <<>>
    /\ cfg = DefaultConfig
    /\ sim = NewSim
    /\ odeBodies = <<>>
    /\ pc = "created"
    /\ active = <<>>
    /\ group = <<>>
    /\ lastCall = NoCall
    /\ log = <<>>
    /\ stepNo = 0
    /\ kin = NoKin
    /\ nailedObjects = EmptyMap
    /\ archive = NoArchive
    /\ peer = NewPeer

NextStore == SetAnyProperty \/ Store \/ Restore

SpecStore == InitStore /\ [][NextStore]_vars

\* the archive has been restored into the new item
restored == log # <<>> /\ log[Len(log)].op = "restore"

\* C16: when the configuration of an item has been stored and the archive
\* restored into a newly constructed item, every field of the new item's
\* configuration equals the field of the stored item
C16_StoreRestoreReproduces ==
    restored => \A f \in DOMAIN cfg : peer.cfg[f] = cfg[f]

----------------------------------------------------------------------------
(* Two simulator items in one process *)

\* initializeSimulation of the second item, on a scene of its own
PeerInitialize ==
    /\ peer.sim.run = MaxRuns
    /\ \E r \in {initializeSimulation(peer.sim, DeviceScene, peer.cfg)} :
           peer' = [peer EXCEPT !.sim = r.sim, !.odeBodies = r.bodies]
    /\ UNCHANGED <<bodyModels, cfg, sim, odeBodies, pc, active, group, lastCall, log,
                   stepNo, kin, nailedObjects, archive>>

\* a step of the second item reports its nail driver's link and its box to
\* nearCallback; the contact joints of the second item are not kept
PeerNearCallback ==
    /\ peer.odeBodies # <<>>
    /\ \E contacts \in StepInputs.contacts, hit \in BOOLEAN, nailHit \in BOOLEAN :
           \E r \in {nearCallback(peer.sim, nailedObjects, peer.cfg.friction,
                                  peer.odeBodies[2].odeLinks[2].bodyID,
                                  peer.odeBodies[1].odeLinks[1].bodyID,
                                  contacts, NoLinkState,
                                  [hit |-> hit, limit |-> FALSE,
                                   nailHit |-> nailHit, ready |-> TRUE], 1)} :
               /\ peer' = [peer EXCEPT !.sim = r.sim]
               /\ nailedObjects' = r.nailed
    /\ UNCHANGED <<bodyModels, cfg, sim, odeBodies, pc, active, group, lastCall, log,
                   stepNo, kin, archive>>

\* the host calls the post-dynamics functions of the second item; checked
\* keeps the release conditions they evaluated
PeerPostDynamics ==
    /\ peer.sim.postDynamics # <<>>
    /\ \E limited \in SUBSET (DOMAIN nailedObjects) :
           \E r \in {postDynamics(peer.sim.postDynamics, peer.sim, nailedObjects,
                                   limited)} :
               /\ nailedObjects' = r.map
               /\ peer' = [peer EXCEPT !.checked = r.checks]
    /\ UNCHANGED <<bodyModels, cfg, sim, odeBodies, pc, active, group, lastCall, log,
                   stepNo, kin, archive>>

NextTwo ==
    \/ NextDevices
    \/ PeerInitialize
    \/ PeerNearCallback
    \/ PeerPostDynamics

SpecTwo == InitDevices /\ [][NextTwo]_vars

\* the handle was created by the second item
ofPeer(h) == runOf(h) > MaxRuns

\* the nailed-object records the first item's latest post-dynamics pass visited
visited ==
    UNION { { d \in log[i].checks : d.kind = "nailed" } :
              i \in { j \in 1..Len(log) : log[j].op = "postdyn" } }

\* C17: a nailed-object record found under a body of one item was created in
\* that item's world, and the limit check of an item visits only records of
\* objects of that item
C17_NailedObjectsPerInstance ==
    /\ \A k \in DOMAIN nailedObjects : ofPeer(k) <=> ofPeer(nailedObjects[k].worldID)
    /\ \A d \in visited : ~ofPeer(d.dev)
    /\ \A d \in peer.checked : d.kind = "nailed" => ofPeer(d.dev)

----------------------------------------------------------------------------
(* Construction-time anomalies *)

\* a mesh without vertices
EmptyMesh == [prim |-> "MESH", scaled |-> FALSE, diag |-> TRUE, scale |-> <<1, 1, 1>>,
              nverts |-> 0, ntris |-> 0]

\* the loop body with one loop-closure joint, its arm's shape and its wheel
\* listing: a name of no link (0) and a node that is no scalar (-1) are bad
\* entries
AnomalyBodies ==
    { [LoopBody(<<ej>>) EXCEPT !.shape[2] = mesh, !.wheelLinks = wheels] :
        ej \in { j \in ExtraJoints : j.type = "piston" },
        mesh \in {<<BoxLeaf>>, <<EmptyMesh>>},
        wheels \in {<<>>, <<0>>, <<-1>>} }

InitAnomaly ==
    /\ bodyModels \in { <<a, Cart>> : a \in AnomalyBodies }
    /\ cfg = DefaultConfig
    /\ sim = NewSim
    /\ odeBodies = <<>>
    /\ pc = "created"
    /\ active = <<>>
    /\ group = <<>>
    /\ lastCall = NoCall
    /\ log = <<>>
    /\ stepNo = 0
    /\ kin = NoKin
    /\ nailedObjects = EmptyMap
    /\ archive = NoArchive
    /\ peer = NewPeer

NextAnomaly ==
    \/ InitializeSimulation
    \/ ActuateAll
    \/ ClearContacts
    \/ NearCallback
    \/ EndCollide
    \/ Integrate
    \/ PostStep

SpecAnomaly == InitAnomaly /\ [][NextAnomaly]_vars

\* C18: initializeSimulation and stepSimulation never end anywhere but at
\* their return, whatever anomaly the bodies carry; once initializeSimulation
\* has run every body has all its adapters, and a step that has returned has
\* gone through its five phases
C18_NoPartialFailure ==
    /\ pc # "ended"
    /\ pc # "created" =>
           \A b \in 1..Len(bodyModels) : Len(odeBodies[b].odeLinks) = bodyModels[b].n
    /\ (pc = "ready" /\ stepNo > 0) =>
           /\ \A b \in 1..Len(odeBodies) :
                  \E i \in 1..Len(log) : log[i].op = "actuate" /\ log[i].body = b
           /\ \A op \in {"clear", "integrate", "pull"} :
                  \E i \in 1..Len(log) : log[i].op = op

----------------------------------------------------------------------------
(* Joint construction for every joint type *)

\* a root and one child, of every joint type
JointBodies ==
    { PlainBody(static, 2, <<0, 1>>, <<rt, jt>>) :
        static \in BOOLEAN, rt \in {"free", "fixed", "crawler", "pct"},
        jt \in {"rotational", "slide", "free", "fixed", "crawler", "pct"} }

InitJoints ==
    /\ bodyModels \in { <<m>> : m \in JointBodies }
    /\ cfg \in { [DefaultConfig EXCEPT !.useWorldCollision = w] : w \in BOOLEAN }
    /\ sim = NewSim
    /\ odeBodies = <<>>
    /\ pc = "created"
    /\ active = <<>>
    /\ group = <<>>
    /\ lastCall = NoCall
    /\ log = <<>>
    /\ stepNo = 0
    /\ kin = NoKin
    /\ nailedObjects = EmptyMap
    /\ archive = NoArchive
    /\ peer = NewPeer

NextJoints == InitializeSimulation

SpecJoints == InitJoints /\ [][NextJoints]_vars

\* the solver body of the parent of the adapter's link, null for a root
parentBody(b, a) ==
    IF bodyModels[b].parent[a.link] = 0 THEN NullID
    ELSE BodyHandle(sim.run, b, bodyModels[b].parent[a.link])

\* the adapter's link is welded to its parent's body
welded(b, a) ==
    a.joint = "fixed" /\ a.attached = parentBody(b, a) /\ a.attached # NullID

\* C19: after createBody every adapter with a solver body has the joint of its
\* joint type: a hinge for rotational, a slider for slide, none for free, and
\* for fixed a weld to the parent's body, or a kinematic body when there is
\* no parent body; an adapter of a tracked link is welded to its parent and
\* its body is a key of crawlerLinks for that link, a root's included
C19_JointDispatch ==
    pc = "ready" =>
        \A b \in 1..Len(odeBodies) :
            \A i \in 1..Len(odeBodies[b].odeLinks) :
                LET a == odeBodies[b].odeLinks[i]
                    jt == bodyModels[b].jt[a.link]
                IN  a.bodyID # NullID =>
                        CASE jt = "rotational" ->
                                 a.joint = "hinge" /\ a.attached = parentBody(b, a)
                          [] jt = "slide" ->
                                 a.joint = "slider" /\ a.attached = parentBody(b, a)
                          [] jt = "free" -> a.joint = "none"
                          [] jt = "fixed" ->
                                 IF parentBody(b, a) # NullID THEN welded(b, a)
                                 ELSE a.joint = "none" /\ a.kinematic
                          [] OTHER ->
                                 /\ welded(b, a)
                                 /\ a.bodyID \in DOMAIN sim.crawlerLinks
                                 /\ sim.crawlerLinks[a.bodyID] = <<b, a.link>>

----------------------------------------------------------------------------
(* Geometries of a link and their placement by the first push *)

\* a triangle mesh of one triangle
MeshLeaf == [prim |-> "MESH", scaled |-> FALSE, diag |-> TRUE, scale |-> <<1, 1, 1>>,
             nverts |-> 3, ntris |-> 1]

\* a body of one link with primitives, a mesh, or both
GeomBodies ==
    { [PlainBody(static, 1, <<0>>, <<"fixed">>) EXCEPT !.shape[1] = sh] :
        static \in BOOLEAN,
        sh \in {<<BoxLeaf>>, <<MeshLeaf>>, <<BoxLeaf, MeshLeaf>>, <<BoxLeaf, BoxLeaf>>} }

\* the state of the link before the body is built
GeomStates ==
    { [op |-> "none", flip |-> FALSE, hasBody |-> FALSE, jointed |-> FALSE,
       link |-> [p |-> p, R |-> R, v |-> Zero3, w |-> Zero3, c |-> c,
                 q |-> 0, dq |-> 0],
       before |-> <<>>,
       solver |-> [R |-> Identity3, pos |-> Zero3, lvel |-> Zero3, avel |-> Zero3],
       hinge |-> <<0, 0>>,
       geoms |-> <<>>] :
        p \in Vecs, R \in Rots, c \in {<<0, 0, 0>>, <<1, 2, 3>>} }

InitGeom ==
    /\ bodyModels \in { <<m>> : m \in GeomBodies }
    /\ cfg \in { [DefaultConfig EXCEPT !.is2Dmode = d] : d \in BOOLEAN }
    /\ kin \in GeomStates
    /\ sim = NewSim
    /\ odeBodies = <<>>
    /\ pc = "created"
    /\ active = <<>>
    /\ group = <<>>
    /\ lastCall = NoCall
    /\ log = <<>>
    /\ stepNo = 0
    /\ nailedObjects = EmptyMap
    /\ archive = NoArchive
    /\ peer = NewPeer

NextGeom == InitializeSimulation

SpecGeom == InitGeom /\ [][NextGeom]_vars

\* C20: when a link without solver body has been built and pushed, every
\* geometry of the link, primitive or triangle mesh, has an entry in the
\* link's offsetMap, and the push has placed it at the link's placement
\* composed with that entry, expressed in the convention of the run
C20_GeometryOffsets ==
    (pc = "ready" /\ kin.op = "pushed" /\ ~kin.hasBody) =>
        LET a == odeBodies[1].odeLinks[1]
            l == kin.before
            R == MatMul(l.R, LeafOffset.R)
            pos == Add(Add(MatVec(l.R, LeafOffset.p), l.p), l.c)
        IN  /\ \A i \in 1..Len(a.geomID) : a.geomID[i] \in a.offsetMap
            /\ Len(kin.geoms) = Len(a.geomID)
            /\ \A i \in 1..Len(kin.geoms) :
                   /\ kin.geoms[i].R = IF kin.flip THEN flipBasisRows(-1, R) ELSE R
                   /\ kin.geoms[i].pos = IF kin.flip THEN toInternal(pos) ELSE pos

----------------------------------------------------------------------------
(* Sensors: an arm with force sensors and rate sensors, and a cart *)

\* a free root carrying an arm on a joint of type jt; fs lists the links of
\* the force sensors, rate tells whether the body has a gyroscope or an
\* accelerometer
Arm(jt, fs, rate) ==
    [PlainBody(FALSE, 2, <<0, 1>>, <<"free", jt>>) EXCEPT
        !.forceSensors = fs, !.rateSensors = rate]

\* a static body of two links joined rigidly
Wall == PlainBody(TRUE, 2, <<0, 1>>, <<"fixed", "fixed">>)

SensorBodies ==
    { Arm(jt, fs, rate) : jt \in {"rotational", "slide"},
                          fs \in {<<>>, <<2>>, <<2, 2>>, <<1>>}, rate \in BOOLEAN }

InitSensors ==
    /\ bodyModels \in { <<a, c>> : a \in SensorBodies, c \in {Cart, Wall} }
    /\ cfg \in { [DefaultConfig EXCEPT !.is2Dmode = d, !.velocityMode = v] :
                    d \in BOOLEAN, v \in BOOLEAN }
    /\ sim = NewSim
    /\ odeBodies = <<>>
    /\ pc = "created"
    /\ active = <<>>
    /\ group = <<>>
    /\ lastCall = NoCall
    /\ log = <<>>
    /\ stepNo = 0
    /\ kin = NoKin
    /\ nailedObjects = EmptyMap
    /\ archive = NoArchive
    /\ peer = NewPeer

NextSensors ==
    \/ InitializeSimulation
    \/ Actuate
    \/ ClearContacts
    \/ EndCollide
    \/ Integrate
    \/ PostStep

SpecSensors == InitSensors /\ [][NextSensors]_vars

\* the place of an operation in the post-step pass of one body
postRank(op) ==
    CASE op = "align" -> 1
      [] op = "force" -> 2
      [] op = "pull" -> 3
      [] op = "gyro" -> 4
      [] OTHER -> 0

\* the entries of the log that operation op made for body b
postOps(b, op) == { i \in 1..Len(log) : log[i].op = op /\ log[i].body = b }

\* C21: the post-step pass of a step works on one active body after the
\* other, and for each in the order realignment, force sensors, pull, rate
\* sensors; when the step has returned every active body was realigned once
\* if and only if 2D mode is on, each of its force sensors was updated
\* exactly once, every link was pulled, and its rate sensors were refreshed
\* once, after the pull, if and only if it has such sensors
C21_PostStepOrder ==
    /\ \A i \in 1..Len(log) : \A j \in i..Len(log) :
           (postRank(log[i].op) > 0 /\ postRank(log[j].op) > 0) =>
               IF log[i].body = log[j].body
               THEN postRank(log[i].op) <= postRank(log[j].op)
               ELSE \A k \in j..Len(log) : log[k].body # log[i].body
    /\ (pc = "ready" /\ stepNo > 0) =>
           \A b \in 1..Len(odeBodies) :
               IF \E a \in 1..Len(active) : active[a] = b
               THEN /\ Cardinality(postOps(b, "align")) = (IF cfg.is2Dmode THEN 1 ELSE 0)
                    /\ \A n \in 1..Len(odeBodies[b].forceSensors) :
                           Cardinality({ i \in postOps(b, "force") :
                                           log[i].sensor = n }) = 1
                    /\ Cardinality(postOps(b, "pull")) = Len(odeBodies[b].odeLinks)
                    /\ Cardinality(postOps(b, "gyro"))
                           = (IF odeBodies[b].rateSensors THEN 1 ELSE 0)
               ELSE \A op \in {"align", "force", "pull", "gyro"} : postOps(b, op) = {}

\* a step in 2D mode on the arm with two force sensors and rate sensors and
\* on the cart has returned
C21_Witness ==
    /\ pc = "ready"
    /\ stepNo > 0
    /\ active = <<1, 2>>
    /\ cfg.is2Dmode
    /\ Len(odeBodies[1].forceSensors) = 2
    /\ odeBodies[1].rateSensors
    /\ Cardinality(postOps(1, "force")) = 2
    /\ postOps(1, "gyro") # {}

\* the entry of the actuate phase for body b
actuateOps(b) == { i \in 1..Len(log) : log[i].op = "actuate" /\ log[i].body = b }

\* C22: when the actuate phase of a step is over every active body has been
\* handed its targets once, all of the one kind of the actuation mode (joint
\* velocity in velocity mode, joint effort otherwise), one call per link other
\* than the root, and a target is written exactly for the links with a
\* rotational or prismatic joint; no other body is handed a target
C22_OneTargetKind ==
    (stepNo > 0 /\ pc # "ended") =>
        \A b \in 1..Len(odeBodies) :
            IF \E a \in 1..Len(active) : active[a] = b
            THEN /\ Cardinality(actuateOps(b)) = 1
                 /\ \A i \in actuateOps(b) :
                        /\ Len(log[i].calls) = bodyModels[b].n - 1
                        /\ \A k \in 1..Len(log[i].calls) :
                               /\ log[i].calls[k].kind
                                      = (IF cfg.velocityMode THEN "velocity" ELSE "torque")
                               /\ log[i].calls[k].link = LinkOfIndex(bodyModels[b], k)
                               /\ log[i].calls[k].link # rootLink(bodyModels[b])
                               /\ log[i].calls[k].written
                                      <=> bodyModels[b].jt[log[i].calls[k].link]
                                             \in {"rotational", "slide"}
            ELSE actuateOps(b) = {}

\* in velocity mode an arm on a prismatic joint and the cart with its crawler
\* wheel were actuated: a velocity for the arm, nothing for the wheel
C22_Witness ==
    /\ stepNo > 0
    /\ pc = "clear"
    /\ cfg.velocityMode
    /\ active = <<1, 2>>
    /\ bodyModels[1].jt[2] = "slide"
    /\ bodyModels[2].jt[2] = "crawler"
    /\ \E i \in actuateOps(1) : log[i].calls[1].written /\ log[i].calls[1].kind = "velocity"
    /\ \E i \in actuateOps(2) : ~log[i].calls[1].written

\* the calls of ODELink::setTorqueToODE made so far on links of body b: the
\* ones of createBody and, outside velocity mode, the ones of the current step
torqueCalls(b) ==
    { odeBodies[b].torque[k] : k \in 1..Len(odeBodies[b].torque) }
    \cup UNION { { log[i].calls[k] : k \in { n \in 1..Len(log[i].calls) :
                                                 log[i].calls[n].kind = "torque" } }
                 : i \in actuateOps(b) }

\* C23: setTorqueToODE of a link is never invoked for a root link nor for a
\* link of a static body; it is only applied to a link that owns a joint
\* handle
C23_TorqueOnlyOnJoints ==
    \A b \in 1..Len(odeBodies) : \A call \in torqueCalls(b) :
        /\ call.link # rootLink(bodyModels[b])
        /\ ~bodyModels[b].static
        /\ call.jointID # NullID

\* the part of C23 that holds: the root link is never handed an effort, and
\* no effort is written through a missing joint handle in this scene
C23_NeverOnRoot ==
    \A b \in 1..Len(odeBodies) : \A call \in torqueCalls(b) :
        /\ call.link # rootLink(bodyModels[b])
        /\ call.written => call.jointID # NullID

\* the joint handle of the adapter of link l of the built body b
jointOf(b, l) == odeBodies[b].odeLinks[index(bodyModels[b], l) + 1].jointID

\* C24: after createBody the feedback buffer of a body has exactly one entry
\* per force sensor, entry i is wired to the joint of the link that carries
\* sensor i, and it is wired to an existing joint handle only
C24_FeedbackPerSensor ==
    \A b \in 1..Len(odeBodies) :
        /\ Len(odeBodies[b].forceSensorFeedbacks) = Len(bodyModels[b].forceSensors)
        /\ \A i \in 1..Len(odeBodies[b].forceSensorFeedbacks) :
               /\ odeBodies[b].forceSensorFeedbacks[i]
                      = jointOf(b, bodyModels[b].forceSensors[i])
               /\ odeBodies[b].forceSensorFeedbacks[i] # NullID

\* the part of C24 that holds: one entry per sensor, entry i handed the
\* joint field of the adapter of the link that carries sensor i
C24_FeedbackIndexed ==
    \A b \in 1..Len(odeBodies) :
        /\ Len(odeBodies[b].forceSensorFeedbacks) = Len(bodyModels[b].forceSensors)
        /\ \A i \in 1..Len(odeBodies[b].forceSensorFeedbacks) :
               odeBodies[b].forceSensorFeedbacks[i]
                   = jointOf(b, bodyModels[b].forceSensors[i])

----------------------------------------------------------------------------
(* The omni-wheel listing *)

MaxWheelEntries == 2

\* the entries of "links": a node that is no scalar (-1), the name of no
\* link (0), the crawler wheel (2), the belt with its pseudo continuous track
\* joint (3)
WheelNames == {-1, 0, 2, 3}

\* the entries of "barrelAngles": no number, 0, pi
WheelAngles == {<<>>, <<0>>, <<2>>}

WheelListings(S) == UNION { [1..n -> S] : n \in 0..MaxWheelEntries }

WheelBodies ==
    { [Vehicle(angles) EXCEPT !.wheelLinks = links] :
        links \in WheelListings(WheelNames), angles \in WheelListings(WheelAngles) }

InitWheels ==
    /\ bodyModels \in { <<v, Cart>> : v \in WheelBodies }
    /\ cfg = DefaultConfig
    /\ sim = NewSim
    /\ odeBodies = <<>>
    /\ pc = "created"
    /\ active = <<>>
    /\ group = <<>>
    /\ lastCall = NoCall
    /\ log = <<>>
    /\ stepNo = 0
    /\ kin = NoKin
    /\ nailedObjects = EmptyMap
    /\ archive = NoArchive
    /\ peer = NewPeer

NextWheels ==
    \/ InitializeSimulation
    \/ ActuateAll
    \/ ClearContacts
    \/ EndCollide
    \/ Integrate
    \/ PostStep

SpecWheels == InitWheels /\ [][NextWheels]_vars

\* entry i of the listing of body b names a link of the body with crawler
\* joint and has, if any, a barrel angle that is a number
goodEntry(b, i) ==
    /\ bodyModels[b].wheelLinks[i] \in LinkIds(bodyModels[b])
    /\ bodyModels[b].jt[bodyModels[b].wheelLinks[i]] = "crawler"
    /\ i <= Len(bodyModels[b].barrelAngles) => bodyModels[b].barrelAngles[i] # <<>>

\* the solver bodies of the links that the good entries of the listings name
wheelBodies ==
    UNION { { odeBodies[b].odeLinks[index(bodyModels[b], bodyModels[b].wheelLinks[i]) + 1].bodyID :
                i \in { k \in 1..Len(bodyModels[b].wheelLinks) : goodEntry(b, k) } }
            : b \in 1..Len(odeBodies) }

\* C25: an entry of the listing that names no link of the body, a link whose
\* joint is no crawler joint, or that is unparseable creates no omni-wheel
\* record, and the entries after it are still processed: the records are
\* exactly those of the good entries.  The lookup for a solver body without
\* record reports false with angle 0
C25_BadEntriesSkipped ==
    pc # "created" =>
        /\ DOMAIN sim.mecanumWheelSetting = wheelBodies
        /\ \A b \in 1..Len(odeBodies) : \A j \in 1..Len(odeBodies[b].odeLinks) :
               LET id == odeBodies[b].odeLinks[j].bodyID
               IN  getMecanumWheelSetting(sim, id).found <=> id \in wheelBodies
        /\ \A b \in 1..Len(odeBodies) : \A j \in 1..Len(odeBodies[b].odeLinks) :
               LET id == odeBodies[b].odeLinks[j].bodyID
               IN  ~(id \in wheelBodies) =>
                       getMecanumWheelSetting(sim, id) = [found |-> FALSE, angle |-> 0]

\* the listing named no link first and the crawler wheel second: the wheel
\* has its record, the belt and the wheel of the cart have none
C25_Witness ==
    /\ pc = "ready"
    /\ bodyModels[1].wheelLinks = <<0, 2>>
    /\ bodyModels[1].barrelAngles = <<(<<>>), (<<2>>)>>
    /\ getMecanumWheelSetting(sim, odeBodies[1].odeLinks[2].bodyID)
           = [found |-> TRUE, angle |-> 2]
    /\ ~getMecanumWheelSetting(sim, odeBodies[1].odeLinks[3].bodyID).found
    /\ ~getMecanumWheelSetting(sim, odeBodies[2].odeLinks[2].bodyID).found

----------------------------------------------------------------------------
(* Leaf shapes *)

MaxLeaves == 2

\* the diagonal scales: uniform, stretched along the axis y, stretched along
\* the axis z
LeafScales == {<<2, 2, 2>>, <<2, 3, 2>>, <<2, 2, 3>>}

\* the leaves the extractor hands to addMesh: meshes with and without
\* vertices, the primitives unscaled, under a diagonal scale, and a box under
\* a scale that is not diagonal
Leaves ==
    { [prim |-> "MESH", scaled |-> FALSE, diag |-> TRUE, scale |-> <<1, 1, 1>>,
       nverts |-> n, ntris |-> n \div 3] : n \in {0, 3} }
    \cup { [prim |-> pr, scaled |-> FALSE, diag |-> TRUE, scale |-> <<1, 1, 1>>,
            nverts |-> 8, ntris |-> 12] : pr \in {"BOX", "SPHERE", "CYLINDER", "CONE"} }
    \cup { [prim |-> pr, scaled |-> TRUE, diag |-> TRUE, scale |-> sc,
            nverts |-> 8, ntris |-> 12] :
            pr \in {"BOX", "SPHERE", "CYLINDER", "CONE"}, sc \in LeafScales }
    \cup { [prim |-> "BOX", scaled |-> TRUE, diag |-> FALSE, scale |-> <<1, 1, 1>>,
            nverts |-> 8, ntris |-> 12] }

\* a body of one link whose shape has up to MaxLeaves leaves
ShapeBodies ==
    { [PlainBody(static, 1, <<0>>, <<"free">>) EXCEPT !.shape[1] = sh] :
        static \in BOOLEAN, sh \in UNION { [1..n -> Leaves] : n \in 0..MaxLeaves } }

InitShapes ==
    /\ bodyModels \in { <<m>> : m \in ShapeBodies }
    /\ cfg = DefaultConfig
    /\ sim = NewSim
    /\ odeBodies = <<>>
    /\ pc = "created"
    /\ active = <<>>
    /\ group = <<>>
    /\ lastCall = NoCall
    /\ log = <<>>
    /\ stepNo = 0
    /\ kin = NoKin
    /\ nailedObjects = EmptyMap
    /\ archive = NoArchive
    /\ peer = NewPeer

NextShapes == InitializeSimulation

SpecShapes == InitShapes /\ [][NextShapes]_vars

\* leaf i of the only link has a native primitive geometry
native(i) ==
    \E k \in 1..Len(odeBodies[1].odeLinks[1].geomID) :
        odeBodies[1].odeLinks[1].geomID[k][5] = i

\* the scale of the leaf allows its primitive: none, or diagonal and any for
\* a box, uniform for a sphere, equal on the radial axes x and z for a cylinder
scaleAllows(leaf) ==
    \/ ~leaf.scaled
    \/ /\ leaf.diag
       /\ CASE leaf.prim = "BOX" -> TRUE
            [] leaf.prim = "SPHERE" ->
                   leaf.scale[1] = leaf.scale[2] /\ leaf.scale[2] = leaf.scale[3]
            [] leaf.prim = "CYLINDER" -> leaf.scale[1] = leaf.scale[3]
            [] OTHER -> FALSE

\* the vertices of the leaves of the shape sh that are not in natives
RECURSIVE meshVertices(_, _)
meshVertices(sh, natives) ==
    IF sh = <<>> THEN 0
    ELSE meshVertices(SubSeq(sh, 1, Len(sh) - 1), natives)
         + (IF Len(sh) \in natives THEN 0 ELSE sh[Len(sh)].nverts)

\* the triangle mesh of the only link: its vertices are those of the leaves
\* without native primitive, it has at most one geometry, and none without
\* vertices
singleMesh ==
    LET ad == odeBodies[1].odeLinks[1]
        meshes == { k \in 1..Len(ad.geomID) : ad.geomID[k][5] = 0 }
    IN  /\ ad.vertices = meshVertices(bodyModels[1].shape[1],
                                       { i \in 1..Len(bodyModels[1].shape[1]) : native(i) })
        /\ Cardinality(meshes) <= 1
        /\ meshes # {} <=> ad.vertices > 0

\* C26 as stated: a leaf gets a native primitive exactly when it is a
\* primitive (anything but a plain mesh) and its scale allows it; every other
\* leaf goes to the single triangle mesh of the link
C26_NativeExactlyWhenPrimitive ==
    pc = "ready" =>
        /\ \A i \in 1..Len(bodyModels[1].shape[1]) :
               LET leaf == bodyModels[1].shape[1][i]
               IN  native(i) <=> (leaf.prim # "MESH" /\ scaleAllows(leaf))
        /\ singleMesh

\* C26 amended: a leaf gets a native primitive exactly when it is a box, a
\* sphere or a cylinder and its scale allows it; every other leaf, a cone
\* among them, goes to the single triangle mesh of the link, of which the
\* link has at most one geometry, and none if the mesh has no vertices
C26_NativeBoxSphereCylinder ==
    pc = "ready" =>
        /\ \A i \in 1..Len(bodyModels[1].shape[1]) :
               LET leaf == bodyModels[1].shape[1][i]
               IN  native(i) <=> (leaf.prim \in {"BOX", "SPHERE", "CYLINDER"}
                                  /\ scaleAllows(leaf))
        /\ singleMesh

\* a link with an unscaled cone and a sphere under a uniform scale was built:
\* the sphere is native, the cone is in the mesh
C26_Witness ==
    /\ pc = "ready"
    /\ Len(bodyModels[1].shape[1]) = 2
    /\ bodyModels[1].shape[1][1].prim = "CONE"
    /\ ~bodyModels[1].shape[1][1].scaled
    /\ bodyModels[1].shape[1][2].prim = "SPHERE"
    /\ bodyModels[1].shape[1][2].scale = <<2, 2, 2>>
    /\ native(2)
    /\ ~native(1)
    /\ odeBodies[1].odeLinks[1].vertices = 8

----------------------------------------------------------------------------
(* The two contact callbacks side by side *)

\* the contacts of the last callback as nearCallback has them (the normal of
\* the contact) and as collisionCallback is handed them (the normal reported,
\* which it negates)
asContacts ==
    IF lastCall.path = "external"
    THEN [i \in 1..Len(lastCall.contacts) |->
             [lastCall.contacts[i] EXCEPT !.normal = Neg(@)]]
    ELSE lastCall.contacts

asCollisions ==
    IF lastCall.path = "near"
    THEN [i \in 1..Len(lastCall.contacts) |->
             [lastCall.contacts[i] EXCEPT !.normal = Neg(@)]]
    ELSE lastCall.contacts

\* what a contact loop made of the contacts: which were kept, with which
\* normal and which surface
classified(joints) ==
    [j \in 1..Len(joints) |->
        [src |-> joints[j].src, normal |-> joints[j].normal,
         surface |-> joints[j].surface]]

\* C27: for the pair, the contacts, the registry of tracked links, the wheel
\* settings and the commanded rates of any callback, the contact loop of
\* nearCallback and the one of collisionCallback discard the same contacts
\* and give the others the same friction mode, mu, mu2, friction direction
\* and target slip speed; and the callback has consulted the device hooks
C27_CallbacksAgree ==
    (lastCall # NoCall /\ Len(lastCall.contacts) > 0) =>
        /\ classified(nearContacts(sim, lastCall.friction, lastCall.body1,
                                    lastCall.body2, asContacts, lastCall.ls, stepNo))
               = classified(externalContacts(sim, lastCall.friction, lastCall.body1,
                                             lastCall.body2, asCollisions, lastCall.ls,
                                             stepNo))
        /\ lastCall.hooks # <<>>

\* the part of C27 that holds: the two contact loops agree on every pair
\* without tracked link, and on a pair whose tracked link has a crawler joint
\* and no stored barrel angle other than 0
C27_AgreeWithoutBeltAndBarrel ==
    (/\ lastCall # NoCall
     /\ lastCall.ls.jt # "pct"
     /\ \A id \in {lastCall.body1, lastCall.body2} :
            getMecanumWheelSetting(sim, id).angle = 0) =>
        classified(nearContacts(sim, lastCall.friction, lastCall.body1,
                                lastCall.body2, asContacts, lastCall.ls, stepNo))
            = classified(externalContacts(sim, lastCall.friction, lastCall.body1,
                                          lastCall.body2, asCollisions, lastCall.ls,
                                          stepNo))

----------------------------------------------------------------------------
(* A vacuum gripper between two boxes *)

\* a free body of one link carrying a vacuum gripper
GripTool(on) ==
    [PlainBody(FALSE, 1, <<0>>, <<"free">>) EXCEPT
        !.vacuumGrippers = {1}, !.gripperOn = on]

InitGrip ==
    /\ bodyModels \in { <<Box, GripTool(on), Box>> : on \in BOOLEAN }
    /\ cfg = DefaultConfig
    /\ sim = NewSim
    /\ odeBodies = <<>>
    /\ pc = "created"
    /\ active = <<>>
    /\ group = <<>>
    /\ lastCall = NoCall
    /\ log = <<>>
    /\ stepNo = 0
    /\ kin = NoKin
    /\ nailedObjects = EmptyMap
    /\ archive = NoArchive
    /\ peer = NewPeer

\* between two steps the controller switches a vacuum gripper on or off
SwitchGripper ==
    /\ pc = "ready"
    /\ hostIdle
    /\ \E k \in DOMAIN sim.vacuumGripperDevs :
           sim' = [sim EXCEPT !.vacuumGripperDevs[k].on = ~@]
    /\ UNCHANGED <<bodyModels, cfg, odeBodies, pc, active, group, lastCall, log,
                   stepNo, kin, nailedObjects, archive, peer>>

NextGrip ==
    \/ InitializeSimulation
    \/ SwitchGripper
    \/ ActuateAll
    \/ ClearContacts
    \/ NearCallback
    \/ EndCollide
    \/ Integrate
    \/ PostStep

SpecGrip == InitGrip /\ [][NextGrip]_vars

\* a callback of the built-in near phase with at least one contact has run
nearCall == lastCall # NoCall /\ lastCall.path = "near" /\ Len(lastCall.contacts) > 0

\* C28: a callback creates no default contact joints only if the pair is a
\* vacuum gripper and the object it was holding; a callback on a gripper and
\* any other body, or on a gripper that is off or holds nothing, creates the
\* default joints of its contacts; and a gripper that is off holds nothing
\* after the callback that it did not hold before
C28_SkipOnlyGrippedPair ==
    nearCall =>
        /\ lastCall.skip =>
               (lastCall.gripper # NullID /\ lastCall.held = lastCall.object)
        /\ ~lastCall.skip =>
               lastCall.joints = nearContacts(sim, lastCall.friction, lastCall.body1,
                                              lastCall.body2, lastCall.contacts,
                                              lastCall.ls, stepNo)
        /\ (lastCall.gripper # NullID /\ ~lastCall.on) => lastCall.holds = NullID

\* the part of C28 that holds: joints are withheld only by a gripper that is
\* on and was holding something, a gripper that is off or holds nothing
\* leaves the default joints, and a gripper that is off never starts gripping
C28_SkipOnlyWhileGripping ==
    nearCall =>
        /\ lastCall.skip =>
               (lastCall.gripper # NullID /\ lastCall.on /\ lastCall.held # NullID)
        /\ ~lastCall.skip =>
               lastCall.joints = nearContacts(sim, lastCall.friction, lastCall.body1,
                                              lastCall.body2, lastCall.contacts,
                                              lastCall.ls, stepNo)
        /\ (lastCall.gripper # NullID /\ ~lastCall.on) => lastCall.holds = NullID

----------------------------------------------------------------------------
(* The registry of nailed objects *)

\* a vacuum gripper of one of the two items is gripping the body
grippedByAny(objId) ==
    \/ nailedObjectGripCheck(sim.vacuumGripperDevs, objId)
    \/ nailedObjectGripCheck(peer.sim.vacuumGripperDevs, objId)

\* C29: the registry of nailed objects has one record per object body; a
\* record once registered is reused by later hits and never replaced, and it
\* is erased only by a limit check, and only if no vacuum gripper is gripping
\* the body; every other record is retained as it is
C29_OneRecordErasedOnlyUngripped ==
    [][\A k \in DOMAIN nailedObjects :
           IF k \in DOMAIN nailedObjects'
           THEN nailedObjects'[k] = nailedObjects[k]
           ELSE ~grippedByAny(k)]_vars

\* the part of C29 that holds with two items as well: every record is keyed
\* by the body it describes, and a record is never replaced while it is
\* registered
C29_RecordsKeptAsRegistered ==
    [][\A k \in DOMAIN nailedObjects :
           /\ nailedObjects[k].bodyID = k
           /\ k \in DOMAIN nailedObjects' => nailedObjects'[k] = nailedObjects[k]]_vars

----------------------------------------------------------------------------
(* The near phase over the spaces of the bodies *)

\* a contact, and the contacts of two geometries that overlap in more points
\* than the contact array holds
OneContact == [normal |-> <<0, 0, 1>>, depth |-> 0]

SpaceInputs ==
    [contacts |-> { <<OneContact>>, [i \in 1..(MaxNumContacts + 1) |-> OneContact] },
     axes |-> {<<0, 1, 0>>}, rates |-> {<<1, 1>>}]

InitSpaces ==
    /\ bodyModels = <<Cart, Box>>
    /\ cfg = DefaultConfig
    /\ sim = NewSim
    /\ odeBodies = <<>>
    /\ pc = "created"
    /\ active = <<>>
    /\ group = <<>>
    /\ lastCall = NoCall
    /\ log = <<>>
    /\ stepNo = 0
    /\ kin = NoKin
    /\ nailedObjects = EmptyMap
    /\ archive = NoArchive
    /\ peer = NewPeer

SpaceNearCallback == NearCallbackOn(SpaceInputs, callbacks < MaxCallbacks)

NextSpaces ==
    \/ InitializeSimulation
    \/ ActuateAll
    \/ ClearContacts
    \/ SpaceNearCallback
    \/ EndCollide
    \/ Integrate
    \/ PostStep

SpecSpaces == InitSpaces /\ [][NextSpaces]_vars

\* the body a solver body handle belongs to
bodyOf(h) == h[3]

\* C30: with the built-in backend nearCallback creates contact joints only
\* for a leaf pair of the spaces of two different bodies, at most
\* MaxNumContacts = 100 per leaf pair; every joint of the contact group joins
\* links of two different bodies
C30_NoContactWithinBody ==
    /\ (lastCall # NoCall /\ lastCall.path = "near") =>
           /\ lastCall.link1[1] # lastCall.link2[1]
           /\ Len(lastCall.joints) <= MaxNumContacts
    /\ ~cfg.useWorldCollision =>
           \A j \in 1..Len(group) :
               /\ group[j].body1 # NullID \/ group[j].body2 # NullID
               /\ (group[j].body1 # NullID /\ group[j].body2 # NullID) =>
                      bodyOf(group[j].body1) # bodyOf(group[j].body2)

\* the wheel of the cart and the box overlap in 101 points: the callback
\* has made 100 contact joints between the two bodies
C30_Witness ==
    /\ lastCall # NoCall
    /\ lastCall.path = "near"
    /\ lastCall.link1 = <<1, 2>>
    /\ lastCall.link2 = <<2, 1>>
    /\ Len(lastCall.joints) = MaxNumContacts
    /\ Len(group) >= MaxNumContacts

====
